---- MODULE Spec2Model ----
(***************************************************************************)
(* Model of karibshams/gpt_test_dashboard:                                 *)
(*   - LocalSocialMediaAI (src/app_local.py): zero-shot classification     *)
(*     with keyword fallback, GPT-2 reply generation with cleaning,        *)
(*     validation and template fallback;                                   *)
(*   - the template responder and keyword context (src/prompt.py);         *)
(*   - GHLIntegration (src/ghl_integration.py): contact upsert, tagging,   *)
(*     custom fields, workflow triggers and the engagement score;          *)
(*   - the callers of LocalSocialMediaAI.process_comment: the submit       *)
(*     handler of the dashboard (src/dashboard_local.py) and the           *)
(*     interactive loop of src/app_local.py.                               *)
(* Text is modelled by strings; substring search, lower-casing, stripping, *)
(* replacement and the regular expressions of the source are computed      *)
(* character by character.                                                 *)
(***************************************************************************)
EXTENDS Integers, Sequences, FiniteSets, TLC

VARIABLES
  comment,          \* argument of the pending / last LocalSocialMediaAI.process_comment call
  classifier_out,   \* what self.classifier(...) did in the last call
  generator_out,    \* what self.generator(...) did in the last call
  result,           \* outcome of the last LocalSocialMediaAI.process_comment call
  invocations,      \* the calls the last LocalSocialMediaAI.process_comment made, in order
  category_tags,    \* GHLIntegration.category_tags
  keyword_mappings, \* GHLIntegration.keyword_mappings
  workflow_rules,   \* GHLIntegration.workflow_rules
  contacts,         \* contacts held by the CRM (email -> contact id)
  requests,         \* HTTP requests issued by the last GHLIntegration.process_comment call
  ghl_call,         \* arguments and CRM behaviour of the last GHLIntegration.process_comment call
  ghl_result,       \* outcome of the last GHLIntegration.process_comment call
  messages,         \* st.session_state.messages of the dashboard
  ai_initialized,   \* st.session_state.ai_initialized of the dashboard
  cli_running       \* the interactive loop of test_local_spiritual_ai has not ended

ai_vars == <<comment, classifier_out, generator_out, result, invocations>>
ghl_vars == <<category_tags, keyword_mappings, workflow_rules, contacts,
              requests, ghl_call, ghl_result>>
caller_vars == <<messages, ai_initialized, cli_running>>
vars == <<comment, classifier_out, generator_out, result, invocations,
          category_tags, keyword_mappings, workflow_rules, contacts, requests,
          ghl_call, ghl_result, messages, ai_initialized, cli_running>>

---------------------------------------------------------------------------
(* Bounds *)

\* Number of words of WordList the comments are built from.
VocabSize == 6

\* Number of tags the calls of GHLIntegration.process_comment may add to
\* category_tags, over all categories.
MaxExtraTags == 2

\* Number of messages of the dashboard conversation beyond which no comment
\* is submitted before the conversation is cleared.
MaxMessages == 2

---------------------------------------------------------------------------
(* Python values *)

\* A call that returns v, and a call out of which an exception escapes.
Return(v) == [raised |-> FALSE, value |-> v]

Raise == [raised |-> TRUE, value |-> "exception"]

---------------------------------------------------------------------------
(* Text primitives: str and re *)

Char(s, i) == SubSeq(s, i, i)

UpperCase == "ABCDEFGHIJKLMNOPQRSTUVWXYZ"

LowerCase == "abcdefghijklmnopqrstuvwxyz"

UpperChars == {Char(UpperCase, i) : i \in 1..Len(UpperCase)}

LowerChars == {Char(LowerCase, i) : i \in 1..Len(LowerCase)}

IsUpper(c) == c \in UpperChars

IsLower(c) == c \in LowerChars

LowerChar(c) ==
  IF IsUpper(c)
  THEN Char(LowerCase, CHOOSE i \in 1..Len(UpperCase) : Char(UpperCase, i) = c)
  ELSE c

\* str.lower(): every character lower-cased, the two halves of the text in
\* turn.
RECURSIVE lower(_)
lower(s) ==
  IF Len(s) = 0 THEN ""
  ELSE IF Len(s) = 1 THEN LowerChar(s)
  ELSE lower(SubSeq(s, 1, Len(s) \div 2))
       \o lower(SubSeq(s, (Len(s) \div 2) + 1, Len(s)))

\* keyword in text
Contains(s, k) ==
  \E i \in 1..(Len(s) - Len(k) + 1) : SubSeq(s, i, i + Len(k) - 1) = k

IsSpace(c) == c \in {" ", "\n", "\t", "\r"}

\* Index of the first character of s, from i on, that is no white space
\* (Len(s) + 1 when there is none), and of the last one, from i down (0).
RECURSIVE FirstNonSpace(_, _)
FirstNonSpace(s, i) ==
  IF i > Len(s) \/ ~IsSpace(Char(s, i)) THEN i ELSE FirstNonSpace(s, i + 1)

RECURSIVE LastNonSpace(_, _)
LastNonSpace(s, i) ==
  IF i < 1 \/ ~IsSpace(Char(s, i)) THEN i ELSE LastNonSpace(s, i - 1)

\* str.strip()
strip(s) == SubSeq(s, FirstNonSpace(s, 1), LastNonSpace(s, Len(s)))

\* str.find(old, i): index of the first occurrence of old in s from i on, 0
\* when there is none.
RECURSIVE find(_, _, _)
find(s, old, i) ==
  IF i + Len(old) - 1 > Len(s) THEN 0
  ELSE IF SubSeq(s, i, i + Len(old) - 1) = old THEN i
  ELSE find(s, old, i + 1)

\* str.replace(old, "") for a non-empty old: every non-overlapping
\* occurrence removed, left to right.
RECURSIVE remove(_, _)
remove(s, old) ==
  LET at == find(s, old, 1)
  IN  IF at = 0 THEN s
      ELSE SubSeq(s, 1, at - 1) \o remove(SubSeq(s, at + Len(old), Len(s)), old)

---------------------------------------------------------------------------
(* LocalSocialMediaAI: configuration *)

\* self.categories
categories == <<"LEAD", "PRAISE", "SPAM", "QUESTION", "COMPLAINT">>

Categories == {categories[i] : i \in 1..Len(categories)}

\* self.category_descriptions, in dictionary order
category_descriptions ==
  << [cat |-> "LEAD",
      desc |-> "interested in devotionals spiritual resources or faith content"],
     [cat |-> "PRAISE",
      desc |-> "positive spiritual feedback testimonial or expressing gratitude to God"],
     [cat |-> "SPAM",
      desc |-> "irrelevant promotional content or suspicious links"],
     [cat |-> "QUESTION",
      desc |-> "asking about faith God spirituality or seeking spiritual guidance"],
     [cat |-> "COMPLAINT",
      desc |-> "spiritual struggles doubts criticism or expressing hurt"] >>

\* The keyword table of _spiritual_keyword_classification, in dictionary order.
patterns ==
  << [category |-> "LEAD",
      keywords |-> <<"devotional", "interested", "get this", "how can i",
                     "want to", "course", "resource">>],
     [category |-> "PRAISE",
      keywords |-> <<"blessed", "grateful", "thank", "moved", "powerful",
                     "tears", "crying", "amazing">>],
     [category |-> "SPAM",
      keywords |-> <<"click here", "free followers", "bit.ly",
                     "check out my", "xxx">>],
     [category |-> "COMPLAINT",
      keywords |-> <<"struggling", "doubt", "fake", "shallow", "disappointed",
                     "silent", "abandoned">>],
     [category |-> "QUESTION",
      keywords |-> <<"?", "how", "what", "why", "is god", "does god",
                     "can god", "where is god">>] >>

---------------------------------------------------------------------------
(* LocalSocialMediaAI._spiritual_keyword_classification *)

\* Number of the keywords found in the text.
Matches(keywords, text) ==
  Cardinality({i \in 1..Len(keywords) : Contains(text, keywords[i])})

\* A score that gives the bonus of the question mark to every category.
CategoryScoreBonusAll(p, comment_, comment_lower) ==
  2 * Matches(p.keywords, comment_lower)
  + (IF Contains(comment_, "?") THEN 3 ELSE 0)

\* Score of one category: 2 per keyword found in the lower-cased comment,
\* plus 3 for QUESTION when the comment holds a question mark.
CategoryScore(p, comment_, comment_lower) ==
  2 * Matches(p.keywords, comment_lower)
  + (IF p.category = "QUESTION" /\ Contains(comment_, "?") THEN 3 ELSE 0)

\* scores, in the order of patterns, from the i-th category on
RECURSIVE ScoresFrom(_, _, _)
ScoresFrom(comment_, comment_lower, i) ==
  IF i > Len(patterns) THEN <<>>
  ELSE <<CategoryScore(patterns[i], comment_, comment_lower)>>
       \o ScoresFrom(comment_, comment_lower, i + 1)

scores(comment_) == ScoresFrom(comment_, lower(comment_), 1)

\* max(d.values()) of a non-empty sequence of integers
MaxOf(s) == CHOOSE m \in {s[i] : i \in 1..Len(s)} : \A i \in 1..Len(s) : s[i] <= m

\* The first index of s, in iteration order, holding m.
FirstIndexOf(s, m) == CHOOSE i \in 1..Len(s) :
                        s[i] = m /\ \A j \in 1..(i - 1) : s[j] # m

\* A max that keeps the last key holding the maximum, where the source keeps
\* the first.
ArgMaxLast(s) == CHOOSE i \in 1..Len(s) :
                   s[i] = MaxOf(s) /\ \A j \in (i + 1)..Len(s) : s[j] # MaxOf(s)

\* max(d, key=d.get): the first key, in iteration order, holding the maximum
ArgMaxFirst(s) == FirstIndexOf(s, MaxOf(s))

\* A keyword classification without the default: the first key holding the
\* maximum, also when the maximum is zero.
spiritual_keyword_classification_no_default(comment_) ==
  patterns[ArgMaxFirst(scores(comment_))].category

\* A keyword classification that asks for more than two keywords: a maximum
\* of 4 or less gives the default.
spiritual_keyword_classification_strict(comment_) ==
  IF MaxOf(scores(comment_)) > 4
  THEN patterns[ArgMaxFirst(scores(comment_))].category ELSE "QUESTION"

spiritual_keyword_classification(comment_) ==
  LET s == scores(comment_)
  IN  IF MaxOf(s) > 0 THEN patterns[ArgMaxFirst(s)].category ELSE "QUESTION"

---------------------------------------------------------------------------
(* LocalSocialMediaAI.classify_comment *)

\* What the zero-shot pipeline does: it raises, or returns a result whose
\* 'labels' list is ranked (an empty list stands for a malformed result).
ClassifierRaises == [kind |-> "raise", labels |-> <<>>]

ClassifierResult(labels) == [kind |-> "result", labels |-> labels]

\* The loop over category_descriptions.items(): the first category whose
\* description equals the label, as <<cat>>; <<>> when the loop ends without one.
MapBack(top_label) ==
  LET hits == {i \in 1..Len(category_descriptions) :
                 category_descriptions[i].desc = top_label}
  IN  IF hits = {} THEN <<>>
      ELSE <<category_descriptions[CHOOSE i \in hits : \A j \in hits : i <= j].cat>>

\* A classification that hands out the top label itself when the loop over
\* the descriptions finds no category, where the source falls back.
classify_comment_raw_label(comment_, outcome) ==
  IF outcome.kind = "raise" \/ Len(outcome.labels) = 0
  THEN Return(spiritual_keyword_classification(comment_))
  ELSE IF MapBack(outcome.labels[1]) # <<>>
       THEN Return(MapBack(outcome.labels[1])[1])
       ELSE Return(outcome.labels[1])

\* A classification whose fallback is the default category, where the source
\* scores the keywords.
classify_comment_default(comment_, outcome) ==
  IF outcome.kind = "raise" \/ Len(outcome.labels) = 0
  THEN Return("QUESTION")
  ELSE IF MapBack(outcome.labels[1]) # <<>>
       THEN Return(MapBack(outcome.labels[1])[1])
       ELSE Return("QUESTION")

classify_comment(comment_, outcome) ==
  IF outcome.kind = "raise" \/ Len(outcome.labels) = 0
  THEN \* except Exception (the pipeline raised, or result['labels'][0] did)
       Return(spiritual_keyword_classification(comment_))
  ELSE IF MapBack(outcome.labels[1]) # <<>>
       THEN Return(MapBack(outcome.labels[1])[1])
       ELSE Return(spiritual_keyword_classification(comment_))

---------------------------------------------------------------------------
(* prompt.py *)

\* REPLY_GENERATION_PROMPTS: each prompt as the text before and after {comment}
REPLY_GENERATION_PROMPTS ==
  [ LEAD |-> [
      before |-> "\nSomeone interested in spiritual content commented: \"",
      after |-> "\"\n\nExamples of good responses:\n- \"We'd love for you to walk with us through it. Here's the link to get started.\"\n- \"That desire is a whisper from God's heart to yours. The next step doesn't require perfection.\"\n\nWrite a warm spiritual reply (2 sentences):" ],
    PRAISE |-> [
      before |-> "\nSomeone shared positive spiritual feedback: \"",
      after |-> "\"\n\nExamples of good responses:\n- \"We're so grateful it resonated with you. May it continue to lead you deeper into His truth.\"\n- \"Your words are a gift. May every encouragement point you back to the One who uplifts us all.\"\n\nWrite a humble, grateful reply (2 sentences):" ],
    SPAM |-> [
      before |-> "\nSpam comment received: \"",
      after |-> "\"\n\nExample response:\n- \"We genuinely hope you find peace wherever your journey leads.\"\n\nWrite a brief, gracious reply (1 sentence):" ],
    QUESTION |-> [
      before |-> "\nSomeone asked about faith/spirituality: \"",
      after |-> "\"\n\nExamples of good responses:\n- \"Great question. Our foundation is deeply spiritual - this truth isn't just motivational, it's transformative.\"\n- \"You're not alone in wondering that. The invitation of grace includes you, even when you doubt.\"\n\nWrite a thoughtful spiritual reply (2 sentences):" ],
    COMPLAINT |-> [
      before |-> "\nSomeone struggling with faith commented: \"",
      after |-> "\"\n\nExamples of good responses:\n- \"That silence can feel so loud. But even there, you're not abandoned - sometimes stillness is where He whispers.\"\n- \"You don't have to pretend here. God meets us in honesty, not perfection.\"\n\nWrite an empathetic spiritual reply (2 sentences):" ] ]

SPIRITUAL_TEMPLATES ==
  [ LEAD |-> [
      devotional |-> <<
        "We'd love for you to walk with us through this journey. Check your DM for the devotional link - may it meet you right where you are.",
        "Your interest is a beautiful thing. We'll send you the details - this invitation to deeper truth is always open.",
        "So glad this resonated with you. The devotional link is coming your way - may each word point you to His grace."
      >>,
      general |-> <<
        "That pull you feel? It's real. We'll DM you the next steps - no perfection required, just an open heart.",
        "We're honored by your interest. Details coming to your inbox - may this be the beginning of something beautiful.",
        "Your curiosity is sacred ground. Check your messages for more - He's already preparing the way."
      >>
    ],
    PRAISE |-> [
      emotional |-> <<
        "Tears are sacred, especially when truth touches something deep. We're honored this moved you.",
        "We take no responsibility for tear-streaked spreadsheets, but we're grateful it met you where you needed it.",
        "Your words are a gift. May this truth continue to echo in the spaces that need it most."
      >>,
      general |-> <<
        "We're so grateful it resonated with you. May it lead you deeper into the truth of who you are in Him.",
        "Thank you for sharing this. It's a joy to know these words found their way to your heart.",
        "Your encouragement means everything. May every blessing point you back to the Source of all good things."
      >>
    ],
    QUESTION |-> [
      doubt |-> <<
        "You're not alone in wondering that. The invitation of grace is personal, and yes, it includes you.",
        "That's a brave question to ask. Faith isn't about having all the answers - it's about trusting the One who does.",
        "Your honesty is refreshing. Let's explore this together - check your DM for a deeper conversation."
      >>,
      seeking |-> <<
        "Beautiful question. Our foundation is deeply spiritual - this isn't just motivation, it's transformation.",
        "Thank you for asking. The short answer is yes, but the full story is even better - DMing you now.",
        "Great question. Truth often stirs curiosity first - let's continue this conversation privately."
      >>
    ],
    COMPLAINT |-> [
      hurt |-> <<
        "You don't have to pretend here. God meets us in our honesty, not our perfection.",
        "That pain is real, and so is His presence in it. We're here to hold space for your journey.",
        "Your struggle matters. Sometimes the wilderness is where the deepest healing begins."
      >>,
      criticism |-> <<
        "We hear your concern. Our aim is to honor Scripture while making space for grace and growth.",
        "Thank you for your honesty. We understand this may not resonate with everyone, and that's okay.",
        "We appreciate you sharing your perspective. May you find the peace you're looking for."
      >>
    ],
    SPAM |-> [
      default |-> <<
        "We hope you find what you're searching for. Blessings on your journey.",
        "Thank you for stopping by. May grace meet you wherever you are.",
        "Peace to you, friend. Our door is always open for genuine connection."
      >>
    ] ]

\* SPIRITUAL_KEYWORDS, in dictionary order
SPIRITUAL_KEYWORDS ==
  <<
    [context |-> "emotional", keywords |-> <<"crying", "tears", "moved", "touched", "felt", "heart", "soul">>],
    [context |-> "seeking", keywords |-> <<"searching", "looking", "want to believe", "help me", "show me", "curious">>],
    [context |-> "doubt", keywords |-> <<"struggling", "doubt", "hard to believe", "questioning", "wondering", "confused">>],
    [context |-> "praise", keywords |-> <<"blessed", "grateful", "amazing", "powerful", "beautiful", "thank you">>],
    [context |-> "hurt", keywords |-> <<"broken", "lost", "alone", "abandoned", "failed", "messed up", "tired">>],
    [context |-> "devotional", keywords |-> <<"devotional", "study", "course", "program", "resource", "material">>]
  >>

\* The last resort of get_template_response
HardCodedTemplates == <<"Thank you for reaching out. Blessings to you.">>

\* get_keyword_context: the first context, in dictionary order, with the
\* highest positive count of keywords found; 'general' when none is found.
\* The count of each context's keywords found in the lower-cased comment, in
\* the order of SPIRITUAL_KEYWORDS, from the i-th context on.
RECURSIVE ContextCountsFrom(_, _)
ContextCountsFrom(comment_lower, i) ==
  IF i > Len(SPIRITUAL_KEYWORDS) THEN <<>>
  ELSE <<Matches(SPIRITUAL_KEYWORDS[i].keywords, comment_lower)>>
       \o ContextCountsFrom(comment_lower, i + 1)

get_keyword_context(comment_) ==
  LET s == ContextCountsFrom(lower(comment_), 1)
  IN  IF MaxOf(s) > 0 THEN SPIRITUAL_KEYWORDS[ArgMaxFirst(s)].context
      ELSE "general"

\* A bucket choice that passes over the 'general' bucket.
TemplateBucketNoGeneral(category, context) ==
  LET category_templates ==
        IF category \in DOMAIN SPIRITUAL_TEMPLATES
        THEN SPIRITUAL_TEMPLATES[category] ELSE SPIRITUAL_TEMPLATES["SPAM"]
  IN  IF context \in DOMAIN category_templates THEN category_templates[context]
      ELSE IF "default" \in DOMAIN category_templates
           THEN category_templates["default"]
      ELSE HardCodedTemplates

\* The bucket get_template_response draws from.
TemplateBucket(category, context) ==
  LET category_templates ==
        IF category \in DOMAIN SPIRITUAL_TEMPLATES
        THEN SPIRITUAL_TEMPLATES[category] ELSE SPIRITUAL_TEMPLATES["SPAM"]
  IN  IF context \in DOMAIN category_templates THEN category_templates[context]
      ELSE IF "general" \in DOMAIN category_templates
           THEN category_templates["general"]
      ELSE IF "default" \in DOMAIN category_templates
           THEN category_templates["default"]
      ELSE HardCodedTemplates

\* A template choice whose index is not the comment's length mod the bucket
\* size: it is one further.
get_template_response_shifted(category, comment_) ==
  LET templates == TemplateBucket(category, get_keyword_context(comment_))
      index == (Len(comment_) + 1) % Len(templates)
  IN  templates[index + 1]

get_template_response(category, comment_) ==
  LET templates == TemplateBucket(category, get_keyword_context(comment_))
      index == Len(comment_) % Len(templates)
  IN  templates[index + 1]

---------------------------------------------------------------------------
(* LocalSocialMediaAI._clean_spiritual_reply *)

prefixes_to_remove ==
  <<"Write a", "Reply:", "Response:", "Answer:", "Customer:", "Business:",
    "Examples of">>

\* Least element of a non-empty set of integers.
Least(S) == CHOOSE i \in S : \A j \in S : i <= j

\* re.sub('^' + prefix + '.*?:', '', reply, flags=re.IGNORECASE): at the start
\* of the text, the prefix in any case, then as few characters other than a
\* line break as possible, then a colon.
SubPrefix(reply, prefix) ==
  LET n == Len(prefix)
      colons == {j \in (n + 1)..Len(reply) :
                   /\ Char(reply, j) = ":"
                   /\ \A k \in (n + 1)..(j - 1) : Char(reply, k) # "\n"}
  IN  IF /\ Len(reply) >= n
         /\ lower(SubSeq(reply, 1, n)) = lower(prefix)
         /\ colons # {}
      THEN SubSeq(reply, Least(colons) + 1, Len(reply))
      ELSE reply

\* The loop over prefixes_to_remove, from the i-th prefix on.
RECURSIVE StripPrefixes(_, _)
StripPrefixes(reply, i) ==
  IF i > Len(prefixes_to_remove) THEN reply
  ELSE StripPrefixes(strip(SubPrefix(reply, prefixes_to_remove[i])), i + 1)

IsTerminator(c) == c \in {".", "!", "?"}

\* Index of the first character of s, from i on, that is (is not) one of
\* '.', '!', '?'; Len(s) + 1 when there is none.
RECURSIVE FirstTerminator(_, _)
FirstTerminator(s, i) ==
  IF i > Len(s) \/ IsTerminator(Char(s, i)) THEN i ELSE FirstTerminator(s, i + 1)

RECURSIVE FirstNonTerminator(_, _)
FirstNonTerminator(s, i) ==
  IF i > Len(s) \/ ~IsTerminator(Char(s, i)) THEN i
  ELSE FirstNonTerminator(s, i + 1)

\* re.split(r'[.!?]+', reply) from position i on: the text up to the next run
\* of terminators, then the fragments after the run.
RECURSIVE SplitFrom(_, _)
SplitFrom(reply, i) ==
  LET t == FirstTerminator(reply, i)
  IN  IF t > Len(reply) THEN <<SubSeq(reply, i, Len(reply))>>
      ELSE <<SubSeq(reply, i, t - 1)>>
           \o SplitFrom(reply, FirstNonTerminator(reply, t))

\* [s.strip() for s in sentences if s.strip()]
RECURSIVE StripNonEmpty(_)
StripNonEmpty(fragments) ==
  IF fragments = <<>> THEN <<>>
  ELSE (IF strip(Head(fragments)) # "" THEN <<strip(Head(fragments))>> ELSE <<>>)
       \o StripNonEmpty(Tail(fragments))

\* A split that keeps the empty fragments and the white space around each.
SentencesUnfiltered(reply) == SplitFrom(reply, 1)

Sentences(reply) == StripNonEmpty(SplitFrom(reply, 1))

\* re.sub(r'\s+[A-Z][a-z]*$', '.', reply): white space, then a capital and
\* lower-case letters up to the end of the text.
SubIncomplete(reply) ==
  LET n == Len(reply)
      at == {i \in 1..n :
               /\ IsSpace(Char(reply, i))
               /\ \E j \in (i + 1)..n :
                    /\ \A k \in i..(j - 1) : IsSpace(Char(reply, k))
                    /\ IsUpper(Char(reply, j))
                    /\ \A k \in (j + 1)..n : IsLower(Char(reply, k))}
  IN  IF at = {} THEN reply ELSE SubSeq(reply, 1, Least(at) - 1) \o "."

clean_spiritual_reply(generated_text, prompt) ==
  LET reply == StripPrefixes(strip(remove(generated_text, prompt)), 1)
      sentences == Sentences(reply)
  IN  IF Len(sentences) >= 2
      THEN strip(SubIncomplete(sentences[1] \o ". " \o sentences[2] \o "."))
      ELSE IF Len(sentences) = 1
      THEN strip(SubIncomplete(sentences[1] \o "."))
      ELSE ""

---------------------------------------------------------------------------
(* LocalSocialMediaAI._is_valid_spiritual_reply *)

MinReplyLength == 20

inappropriate ==
  <<"click here", "buy now", "limited time", "act now", "deal", "discount",
    "offer expires", "hurry">>

spiritual_indicators ==
  <<"grace", "god", "bless", "journey", "heart", "soul", "faith", "hope",
    "peace", "love", "truth", "sacred">>

appropriate_phrases ==
  <<"thank you", "grateful", "appreciate", "understand", "hear you",
    "with you", "for you", "honored">>

\* any(phrase in text for phrase in phrases)
ContainsAny(text, phrases) ==
  \E i \in 1..Len(phrases) : Contains(text, phrases[i])

\* A tone check without the list of inappropriate phrases.
ValidToneUnfiltered(reply_lower, category) ==
  IF category \in {"LEAD", "PRAISE", "QUESTION", "COMPLAINT"}
  THEN \/ ContainsAny(reply_lower, spiritual_indicators)
       \/ ContainsAny(reply_lower, appropriate_phrases)
  ELSE TRUE

\* A tone check that asks for no spiritual or empathetic language.
ValidToneNoIndicators(reply_lower, category) ==
  ~ContainsAny(reply_lower, inappropriate)

\* The checks of _is_valid_spiritual_reply on reply_lower = reply.lower()
ValidTone(reply_lower, category) ==
  IF ContainsAny(reply_lower, inappropriate) THEN FALSE
  ELSE IF category \in {"LEAD", "PRAISE", "QUESTION", "COMPLAINT"}
       THEN \/ ContainsAny(reply_lower, spiritual_indicators)
            \/ ContainsAny(reply_lower, appropriate_phrases)
       ELSE TRUE

is_valid_spiritual_reply(reply, category) ==
  IF reply = "" \/ Len(reply) < MinReplyLength THEN FALSE
  ELSE ValidTone(lower(reply), category)

---------------------------------------------------------------------------
(* LocalSocialMediaAI.generate_reply and process_comment *)

\* What the text-generation pipeline does: it raises, returns a response
\* without a 'generated_text', or returns a text: the prompt followed by a
\* continuation (echo) or the continuation alone.
GeneratorRaises == [kind |-> "raise", echo |-> FALSE, continuation |-> ""]

GeneratorMalformed == [kind |-> "malformed", echo |-> FALSE, continuation |-> ""]

GeneratorResult(echo, continuation) ==
  [kind |-> "result", echo |-> echo, continuation |-> continuation]

\* prompt.format(comment=comment) of the category's prompt
FormattedPrompt(comment_, category) ==
  LET prompt == IF category \in DOMAIN REPLY_GENERATION_PROMPTS
                THEN REPLY_GENERATION_PROMPTS[category]
                ELSE REPLY_GENERATION_PROMPTS["QUESTION"]
  IN  prompt.before \o comment_ \o prompt.after

\* response[0]['generated_text']
GeneratedText(outcome, formatted_prompt) ==
  IF outcome.echo THEN formatted_prompt \o outcome.continuation
  ELSE outcome.continuation

\* The reply the model path offers: the cleaned generation.
gpt2_reply(comment_, category, outcome) ==
  clean_spiritual_reply(
    GeneratedText(outcome, FormattedPrompt(comment_, category)),
    FormattedPrompt(comment_, category))

\* An end of the try block that returns the cleaned generation unvalidated.
Unvalidated(reply, category, template_response) == Return(reply)

\* The end of the try block: the cleaned generation if it is valid, the
\* template response otherwise.
ValidOrTemplate(reply, category, template_response) ==
  IF is_valid_spiritual_reply(reply, category)
  THEN Return(reply) ELSE Return(template_response)

\* A generate_reply without the except clause: the pipeline's exception
\* escapes.
generate_reply_no_except(comment_, category, outcome) ==
  IF outcome.kind # "result" THEN Raise
  ELSE ValidOrTemplate(gpt2_reply(comment_, category, outcome), category,
                       get_template_response(category, comment_))

\* A generate_reply whose except clause returns an empty reply.
generate_reply_empty_on_error(comment_, category, outcome) ==
  IF outcome.kind # "result" THEN Return("")
  ELSE ValidOrTemplate(gpt2_reply(comment_, category, outcome), category,
                       get_template_response(category, comment_))

generate_reply(comment_, category, outcome) ==
  LET template_response == get_template_response(category, comment_)
  IN  IF outcome.kind # "result"
      THEN Return(template_response)      \* except Exception
      ELSE ValidOrTemplate(gpt2_reply(comment_, category, outcome), category,
                           template_response)

process_comment(comment_, cls_outcome, gen_outcome) ==
  LET category == classify_comment(comment_, cls_outcome)
  IN  IF category.raised THEN Raise
      ELSE LET reply == generate_reply(comment_, category.value, gen_outcome)
           IN  IF reply.raised THEN Raise
               ELSE Return([comment |-> comment_,
                            category |-> category.value,
                            reply |-> reply.value,
                            context |-> get_keyword_context(comment_)])

---------------------------------------------------------------------------
(* The calls of process_comment, in the order the code makes them *)

\* classify_comment with a second call of the pipeline after a failed one.
classify_comment_calls_retry(outcome) ==
  IF outcome.kind = "raise"
  THEN <<"classifier", "classifier", "_spiritual_keyword_classification">>
  ELSE IF Len(outcome.labels) = 0 \/ MapBack(outcome.labels[1]) = <<>>
  THEN <<"classifier", "_spiritual_keyword_classification">>
  ELSE <<"classifier">>

\* classify_comment: one call of the zero-shot pipeline; when it raises, or
\* its top label is no description, one call of the keyword scorer.
classify_comment_calls(outcome) ==
  IF \/ outcome.kind = "raise"
     \/ Len(outcome.labels) = 0
     \/ MapBack(outcome.labels[1]) = <<>>
  THEN <<"classifier", "_spiritual_keyword_classification">>
  ELSE <<"classifier">>

\* generate_reply: the template response, then, in the try block, one call
\* of the text-generation pipeline, whatever it does; the prompts' only
\* field is {comment}, so that formatting the prompt does not fail.
generate_reply_calls(outcome) == <<"get_template_response", "generator">>

\* process_comment: classify_comment, generate_reply, get_keyword_context.
process_comment_calls(cls_outcome, gen_outcome) ==
  classify_comment_calls(cls_outcome) \o generate_reply_calls(gen_outcome)
  \o <<"get_keyword_context">>

---------------------------------------------------------------------------
(* Inputs *)

WordList == <<"How", "doubt", "interested", "amazing", "?", "hello", "xxx", "tears">>

Words == {WordList[i] : i \in 1..VocabSize}

\* sample_comments of the dashboard
sample_comments ==
  { "I'm interested in your services. How can I get started?",
    "Amazing product! Best purchase I've made this year!",
    "Click here for free followers!!! www.spam.com",
    "What are your business hours?",
    "My order hasn't arrived and it's been 2 weeks!" }

\* One-word comments with the contexts emotional, seeking, hurt and
\* devotional.
context_comments == {"tears", "curious", "alone", "devotional"}

\* Comments with a '?' inside a word: without the '?' they hold keywords.
split_word_comments == {"dou?bt", "h?ow w?hat w?hy"}

\* The comments: one word, two words separated by a blank, a sample, a
\* comment with a context, or a comment with a '?' inside a word.
Comments ==
  Words \cup {a \o " " \o b : a \in Words, b \in Words} \cup sample_comments
  \cup context_comments \cup split_word_comments

UnmappedLabel == "a label that is no category description"

ClassifierOutcomes ==
  {ClassifierRaises, ClassifierResult(<<>>), ClassifierResult(<<UnmappedLabel>>)}
  \cup {ClassifierResult(<<category_descriptions[i].desc>>) :
          i \in 1..Len(category_descriptions)}

Continuations ==
  { " May grace and peace be with you today. God bless your journey. Amen",
    " Buy now and get a discount. Hurry",
    " Ok.",
    "",
    "...",
    "\nReply: We hear you and we are with you.",
    " Response: Note: thank you for sharing this with us!",
    " See you at the store next week maybe?",
    " We pray that you find an ideal path with faith",
    " Peace be with you!! . ? God loves you. Amen" }

\* The continuations also returned without the prompt before them.
BareContinuations ==
  { " May grace and peace be with you today. God bless your journey. Amen",
    "\nReply: We hear you and we are with you." }

GeneratorOutcomes ==
  {GeneratorRaises, GeneratorMalformed}
  \cup {GeneratorResult(TRUE, c) : c \in Continuations}
  \cup {GeneratorResult(FALSE, c) : c \in BareContinuations}

ClassifierNotCalled == [kind |-> "none", labels |-> <<>>]

GeneratorNotCalled == [kind |-> "none", echo |-> FALSE, continuation |-> ""]

---------------------------------------------------------------------------
(* GHLIntegration.__init__ *)

InitKeywordMappings ==
  << [category |-> "interested",
      keywords |-> <<"interested", "want to buy", "how to order", "purchase", "pricing">>],
     [category |-> "hot_lead",
      keywords |-> <<"ready to buy", "urgent", "asap", "immediately", "now">>],
     [category |-> "question",
      keywords |-> <<"how", "what", "when", "where", "why", "?">>],
     [category |-> "complaint",
      keywords |-> <<"problem", "issue", "disappointed", "terrible", "worst">>],
     [category |-> "praise",
      keywords |-> <<"amazing", "excellent", "love", "best", "great">>] >>

InitCategoryTags ==
  [ LEAD |-> <<"social-media-lead", "interested">>,
    PRAISE |-> <<"happy-customer", "testimonial">>,
    SPAM |-> <<"spam", "to-review">>,
    QUESTION |-> <<"needs-info", "inquiry">>,
    COMPLAINT |-> <<"needs-attention", "unhappy-customer">> ]

InitWorkflowRules ==
  [ LEAD |-> "social_media_lead_workflow",
    COMPLAINT |-> "complaint_resolution_workflow",
    PRAISE |-> "testimonial_request_workflow" ]

GhlInit ==
  /\ category_tags = InitCategoryTags
  /\ keyword_mappings = InitKeywordMappings
  /\ workflow_rules = InitWorkflowRules
  /\ contacts = <<>>
  /\ requests = <<>>
  /\ ghl_call = <<>>
  /\ ghl_result = <<>>

---------------------------------------------------------------------------
(* GHLIntegration.check_keywords and calculate_engagement_score *)

\* A membership test that never finds the element.
InListNever(x, list) == FALSE

\* x in list
InList(x, list) == \E i \in 1..Len(list) : list[i] = x

\* The loop of check_keywords over the table, from its i-th entry on.
RECURSIVE MatchedFrom(_, _, _)
MatchedFrom(mappings, comment_lower, i) ==
  IF i > Len(mappings) THEN <<>>
  ELSE (IF ContainsAny(comment_lower, mappings[i].keywords)
        THEN <<mappings[i].category>> ELSE <<>>)
       \o MatchedFrom(mappings, comment_lower, i + 1)

check_keywords(mappings, comment_) == MatchedFrom(mappings, lower(comment_), 1)

category_scores ==
  [LEAD |-> 80, QUESTION |-> 60, PRAISE |-> 70, COMPLAINT |-> 50, SPAM |-> 0]

Min(a, b) == IF a <= b THEN a ELSE b

\* s[:n]
Prefix(s, n) == SubSeq(s, 1, Min(Len(s), n))

\* A score without the cap at 100.
calculate_engagement_score_uncapped(category, keyword_matches) ==
  (IF category \in DOMAIN category_scores THEN category_scores[category] ELSE 30)
  + (IF InList("interested", keyword_matches) THEN 10 ELSE 0)
  + (IF InList("hot_lead", keyword_matches) THEN 15 ELSE 0)

calculate_engagement_score(category, keyword_matches) ==
  LET base == IF category \in DOMAIN category_scores
              THEN category_scores[category] ELSE 30
      interested == IF InList("interested", keyword_matches) THEN 10 ELSE 0
      hot_lead == IF InList("hot_lead", keyword_matches) THEN 15 ELSE 0
  IN  Min(base + interested + hot_lead, 100)

---------------------------------------------------------------------------
(* The CRM and the HTTP calls *)

\* What the CRM does with the calls of one process_comment: each kind of
\* call is answered ("ok"), answered with a failure status ("status"), or
\* raises ("raise"); a failing tag call is the tag_at-th one.
StepOutcomes == {"ok", "status", "raise"}

AllOk ==
  [search |-> "ok", upsert |-> "ok", tags |-> "ok", tag_at |-> 1,
   fields |-> "ok", workflow |-> "ok", hot_lead |-> "ok"]

\* One kind of call fails, or every call fails the same way.
CrmBehaviours ==
  {AllOk}
  \cup {[AllOk EXCEPT ![step] = k] :
          step \in {"search", "upsert", "tags", "fields", "workflow", "hot_lead"},
          k \in {"status", "raise"}}
  \cup {[AllOk EXCEPT !.tags = k, !.tag_at = 2] : k \in {"status", "raise"}}
  \cup {[search |-> k, upsert |-> k, tags |-> k, tag_at |-> 1, fields |-> k,
         workflow |-> k, hot_lead |-> k] : k \in {"status", "raise"}}

Request(kind, id, text, score) ==
  [kind |-> kind, id |-> id, text |-> text, score |-> score]

\* contact_info.get("email"): <<>> is None
EmailOf(contact_info) == contact_info.email

\* The contacts a search answers with: those of the e-mail address; without
\* an address in the request the search is not filtered.
SearchContacts(store, email) ==
  SelectSeq(store, LAMBDA c : email = <<>> \/ c.email = email)

---------------------------------------------------------------------------
(* GHLIntegration.create_or_update_contact *)

ContactError(message, reqs, store) ==
  [has_error |-> TRUE, error |-> message, contact_id |-> 0, created |-> FALSE,
   response_ok |-> FALSE, requests |-> reqs, contacts |-> store]

ContactResult(contact_id, created, response_ok, reqs, store) ==
  [has_error |-> FALSE, error |-> "", contact_id |-> contact_id,
   created |-> created, response_ok |-> response_ok, requests |-> reqs,
   contacts |-> store]

\* The update of an existing contact: the PUT request.
UpdateContact(contact_id, crm, reqs, store) ==
  IF crm.upsert = "raise"
  THEN ContactError("exception", Append(reqs, Request("update", contact_id, "", 0)), store)
  ELSE ContactResult(contact_id, FALSE, crm.upsert = "ok",
                     Append(reqs, Request("update", contact_id, "", 0)), store)

\* The creation of a contact: the POST request; the CRM stores the contact
\* when it answers 201.
CreateContact(email, crm, reqs, store) ==
  LET sent == Append(reqs, Request("create", 0, IF email = <<>> THEN "" ELSE email[1], 0))
      new_id == Len(store) + 1
  IN  IF crm.upsert = "raise" THEN ContactError("exception", sent, store)
      ELSE IF crm.upsert = "status"
      THEN ContactError("Failed to create/update contact", sent, store)
      ELSE ContactResult(new_id, TRUE, TRUE, sent,
                         Append(store, [id |-> new_id, email |-> email]))

\* An upsert that creates the contact whatever the search found.
create_contact_always(contact_info, crm, store) ==
  LET email == EmailOf(contact_info)
      reqs == <<Request("search", 0, IF email = <<>> THEN "" ELSE email[1], 0)>>
  IN  IF crm.search = "raise" THEN ContactError("exception", reqs, store)
      ELSE IF crm.search = "status"
      THEN ContactError("Failed to create/update contact", reqs, store)
      ELSE CreateContact(email, crm, reqs, store)

create_or_update_contact(contact_info, crm, store) ==
  LET email == EmailOf(contact_info)
      reqs == <<Request("search", 0, IF email = <<>> THEN "" ELSE email[1], 0)>>
      found == SearchContacts(store, email)
  IN  IF crm.search = "raise" THEN ContactError("exception", reqs, store)
      ELSE IF crm.search = "status"
      THEN ContactError("Failed to create/update contact", reqs, store)
      ELSE IF found # <<>> THEN UpdateContact(found[1].id, crm, reqs, store)
      ELSE CreateContact(email, crm, reqs, store)

---------------------------------------------------------------------------
(* GHLIntegration.add_tags_to_contact, update_custom_fields, trigger_workflow *)

\* The tag requests sent: one per tag, up to and including a failing one.
TagRequests(contact_id, tags, crm) ==
  LET sent == IF crm.tags # "ok" /\ crm.tag_at <= Len(tags)
              THEN crm.tag_at ELSE Len(tags)
  IN  [i \in 1..sent |-> Request("tag", contact_id, tags[i], 0)]

add_tags_to_contact(tags, crm) ==
  ~(crm.tags # "ok" /\ crm.tag_at <= Len(tags))

update_custom_fields(crm) == crm.fields = "ok"

trigger_workflow(outcome) == outcome = "ok"

---------------------------------------------------------------------------
(* GHLIntegration.process_comment *)

\* tags.append(f"keyword-{kw_category}") for each matched family, from the
\* i-th on
RECURSIVE AppendKeywordTags(_, _, _)
AppendKeywordTags(tags, keyword_categories, i) ==
  IF i > Len(keyword_categories) THEN tags
  ELSE AppendKeywordTags(Append(tags, "keyword-" \o keyword_categories[i]),
                         keyword_categories, i + 1)

\* self.category_tags after the appends: tags is the table's own list when
\* the category has an entry, and a new list otherwise.
TagsTableAfter(table, category, tags) ==
  IF category \in DOMAIN table THEN [table EXCEPT ![category] = tags] ELSE table

\* A result dictionary whose contact_updated is set before the error of the
\* contact step is looked at.
ResultsBeforeErrorCheck(contact, tags_added, fields_updated, workflow_triggered, hot_lead_alert) ==
  [contact_created |-> contact.created,
   contact_updated |-> ~contact.created,
   tags_added |-> tags_added,
   workflow_triggered |-> workflow_triggered,
   custom_fields_updated |-> fields_updated,
   has_error |-> contact.has_error,
   error |-> contact.error,
   hot_lead_alert |-> hot_lead_alert]

Results(contact, tags_added, fields_updated, workflow_triggered, hot_lead_alert) ==
  [contact_created |-> ~contact.has_error /\ contact.created,
   contact_updated |-> ~contact.has_error /\ ~contact.created,
   tags_added |-> tags_added,
   workflow_triggered |-> workflow_triggered,
   custom_fields_updated |-> fields_updated,
   has_error |-> contact.has_error,
   error |-> contact.error,
   hot_lead_alert |-> hot_lead_alert]

\* The call's outcome: the returned dictionary, the requests it made, and the
\* tag table and the CRM's contacts after it.
ghl_process_comment(comment_, category, contact_info, crm, table, mappings, rules, store) ==
  LET contact == create_or_update_contact(contact_info, crm, store)
      keyword_categories == check_keywords(mappings, comment_)
      tags == AppendKeywordTags(
                IF category \in DOMAIN table THEN table[category] ELSE <<>>,
                keyword_categories, 1)
      tagged == tags # <<>> /\ add_tags_to_contact(tags, crm)
      tag_reqs == IF tags # <<>> THEN TagRequests(contact.contact_id, tags, crm)
                  ELSE <<>>
      field_reqs == <<Request("fields", contact.contact_id, Prefix(comment_, 255),
                              calculate_engagement_score(category, keyword_categories))>>
      has_workflow == category \in DOMAIN rules
      workflow_reqs == IF has_workflow
                       THEN <<Request("workflow", contact.contact_id, rules[category], 0)>>
                       ELSE <<>>
      hot == InList("hot_lead", keyword_categories)
      hot_reqs == IF hot
                  THEN <<Request("workflow", contact.contact_id,
                                 "urgent_lead_notification", 0)>>
                  ELSE <<>>
  IN  IF contact.has_error
      THEN [raised |-> FALSE,
            results |-> Results(contact, <<>>, FALSE, FALSE, FALSE),
            requests |-> contact.requests,
            category_tags |-> table,
            contacts |-> contact.contacts]
      ELSE [raised |-> FALSE,
            results |-> Results(contact,
                                IF tagged THEN tags ELSE <<>>,
                                update_custom_fields(crm),
                                has_workflow /\ trigger_workflow(crm.workflow),
                                hot),
            requests |-> contact.requests \o tag_reqs \o field_reqs
                         \o workflow_reqs \o hot_reqs,
            category_tags |-> TagsTableAfter(table, category, tags),
            contacts |-> contact.contacts]

---------------------------------------------------------------------------
(* Calls of GHLIntegration.process_comment *)

GhlComments == {"hello", "How?", "interested now"}

GhlCategories == Categories \cup {"OTHER"}

ContactInfos == {[email |-> <<"a@example.com">>], [email |-> <<>>]}

\* Number of tags added to the table since __init__.
RECURSIVE ExtraTagsIn(_, _)
ExtraTagsIn(table, cats) ==
  IF cats = {} THEN 0
  ELSE LET c == CHOOSE x \in cats : TRUE
       IN  Len(table[c]) - Len(InitCategoryTags[c]) + ExtraTagsIn(table, cats \ {c})

ExtraTags(table) == ExtraTagsIn(table, DOMAIN table)

\* One call of process_comment, with what the CRM does in it.
GhlProcessComment(c, category, contact_info, crm) ==
  /\ ghl_result = <<>>
  /\ ExtraTags(category_tags) + Len(check_keywords(keyword_mappings, c))
       <= MaxExtraTags
  /\ LET out == ghl_process_comment(c, category, contact_info, crm,
                                    category_tags, keyword_mappings,
                                    workflow_rules, contacts)
     IN  /\ ghl_call' = <<[comment |-> c, category |-> category,
                           contact_info |-> contact_info, crm |-> crm]>>
         /\ ghl_result' = <<[raised |-> out.raised, results |-> out.results]>>
         /\ requests' = out.requests
         /\ category_tags' = out.category_tags
         /\ contacts' = out.contacts
  /\ UNCHANGED <<keyword_mappings, workflow_rules, ai_vars, caller_vars>>

\* The caller has taken the result.
GhlTakeResult ==
  /\ ghl_result # <<>>
  /\ ghl_call' = <<>>
  /\ ghl_result' = <<>>
  /\ requests' = <<>>
  /\ UNCHANGED <<category_tags, keyword_mappings, workflow_rules, contacts, ai_vars, caller_vars>>

NextCRM ==
  \/ \E c \in GhlComments, category \in GhlCategories,
        contact_info \in ContactInfos, crm \in CrmBehaviours :
       GhlProcessComment(c, category, contact_info, crm)
  \/ GhlTakeResult

---------------------------------------------------------------------------
(* The comment processor: calls of LocalSocialMediaAI.process_comment *)

\* No call is under way: the last result has been taken.
NoComment == <<>>

AiInit ==
  /\ comment = NoComment
  /\ classifier_out = ClassifierNotCalled
  /\ generator_out = GeneratorNotCalled
  /\ result = <<>>
  /\ invocations = <<>>

\* The session state of the dashboard before the models are loaded, and the
\* interactive loop at its start.
CallerInit ==
  /\ messages = <<>>
  /\ ai_initialized = FALSE
  /\ cli_running = TRUE

Init == AiInit /\ GhlInit /\ CallerInit

\* The caller calls process_comment(c).
Receive(c) ==
  /\ comment = NoComment
  /\ comment' = <<c>>
  /\ UNCHANGED <<classifier_out, generator_out, result, invocations, ghl_vars, caller_vars>>

\* The body of process_comment on the comment received, with what the two
\* pipelines do in it.
ProcessComment(cls, gen) ==
  /\ comment # NoComment
  /\ result = <<>>
  /\ classifier_out' = cls
  /\ generator_out' = gen
  /\ result' = <<process_comment(comment[1], cls, gen)>>
  /\ invocations' = process_comment_calls(cls, gen)
  /\ UNCHANGED <<comment, ghl_vars, caller_vars>>

\* The caller has taken the result.
TakeResult ==
  /\ result # <<>>
  /\ comment' = NoComment
  /\ classifier_out' = ClassifierNotCalled
  /\ generator_out' = GeneratorNotCalled
  /\ result' = <<>>
  /\ invocations' = <<>>
  /\ UNCHANGED <<ghl_vars, caller_vars>>

Next ==
  \/ \E c \in Comments : Receive(c)
  \/ \E cls \in ClassifierOutcomes, gen \in GeneratorOutcomes :
       ProcessComment(cls, gen)
  \/ TakeResult

Spec == Init /\ [][Next]_vars

SpecCRM == Init /\ [][NextCRM]_vars

---------------------------------------------------------------------------
(* The callers of LocalSocialMediaAI.process_comment *)

\* What the user types in the text area of the dashboard or at the prompt of
\* the interactive loop: nothing, white space, or a text with or without
\* white space around it.
UserInputs == {"", " ", " \n ", "hello", " How ? ", " QUIT "}

\* What the two pipelines do in the calls made by the callers.
CallerClassifierOutcomes ==
  {ClassifierRaises, ClassifierResult(<<category_descriptions[1].desc>>)}

CallerGeneratorOutcomes ==
  { GeneratorRaises,
    GeneratorResult(TRUE, " May grace and peace be with you today. God bless your journey. Amen") }

\* The state of the comment processor after process_comment(c).
Invoke(c, cls, gen) ==
  /\ comment' = <<c>>
  /\ classifier_out' = cls
  /\ generator_out' = gen
  /\ result' = <<process_comment(c, cls, gen)>>
  /\ invocations' = process_comment_calls(cls, gen)

\* The message of the user and, unless process_comment raised, the message
\* of the AI appended to the conversation.
MessagesAfter(user_input, out) ==
  messages
  \o <<[role |-> "user", content |-> user_input]>>
  \o (IF out.raised THEN <<>>
      ELSE <<[role |-> "ai", content |-> out.value.reply,
              category |-> out.value.category]>>)

\* The sidebar button 'Initialize Local AI'.
InitializeAI ==
  /\ ~ai_initialized
  /\ ai_initialized' = TRUE
  /\ UNCHANGED <<messages, cli_running, ai_vars, ghl_vars>>

\* The sidebar button 'Clear Conversation'.
ClearConversation ==
  /\ messages # <<>>
  /\ messages' = <<>>
  /\ UNCHANGED <<ai_initialized, cli_running, ai_vars, ghl_vars>>

\* The submit handler of the dashboard on the text of the form: when the
\* text is truthy it records the message of the user, calls process_comment
\* and records the reply; otherwise it does nothing.
Submit(user_input, cls, gen) ==
  /\ ai_initialized
  /\ Len(messages) < MaxMessages
  /\ IF user_input # ""
     THEN /\ Invoke(user_input, cls, gen)
          /\ messages' = MessagesAfter(user_input,
                                       process_comment(user_input, cls, gen))
     ELSE UNCHANGED <<ai_vars, messages>>
  /\ UNCHANGED <<ai_initialized, cli_running, ghl_vars>>

\* One round of the interactive loop on the line read: the line is stripped;
\* 'quit' in any case ends the loop; any other non-empty text is given to
\* process_comment; an empty text is skipped.
InteractiveRound(line, cls, gen) ==
  /\ cli_running
  /\ LET user_comment == strip(line)
     IN  IF lower(user_comment) = "quit"
         THEN cli_running' = FALSE /\ UNCHANGED ai_vars
         ELSE IF user_comment # ""
         THEN Invoke(user_comment, cls, gen) /\ UNCHANGED cli_running
         ELSE UNCHANGED <<ai_vars, cli_running>>
  /\ UNCHANGED <<messages, ai_initialized, ghl_vars>>

NextCallers ==
  \/ InitializeAI
  \/ ClearConversation
  \/ \E user_input \in UserInputs, cls \in CallerClassifierOutcomes,
        gen \in CallerGeneratorOutcomes :
       Submit(user_input, cls, gen)
  \/ \E line \in UserInputs, cls \in CallerClassifierOutcomes,
        gen \in CallerGeneratorOutcomes :
       InteractiveRound(line, cls, gen)

SpecCallers == Init /\ [][NextCallers]_vars

---------------------------------------------------------------------------
(* States of the comment processor the properties speak of *)

\* process_comment has returned or raised, and the result is not yet taken.
Done == result # <<>>

\* The classification of the call went through the keyword scorer: the
\* pipeline raised, returned no label, or a label that is no description.
KeywordFallback ==
  \/ classifier_out.kind = "raise"
  \/ /\ classifier_out.kind = "result"
     /\ \/ Len(classifier_out.labels) = 0
        \/ \A i \in 1..Len(category_descriptions) :
             category_descriptions[i].desc # classifier_out.labels[1]

\* The categories holding the maximum keyword score of the comment.
TiedCategories(comment_) ==
  {patterns[i].category :
     i \in {j \in 1..Len(patterns) : scores(comment_)[j] = MaxOf(scores(comment_))}}

\* The member of S that comes first in the sequence order.
EarliestIn(order, S) == order[Least({i \in 1..Len(order) : order[i] \in S})]

\* The order of the keys of the keyword table of the scorer.
PatternOrder == <<"LEAD", "PRAISE", "SPAM", "COMPLAINT", "QUESTION">>

\* The comment's maximum keyword score is positive and shared.
ScoreTie(comment_) ==
  /\ MaxOf(scores(comment_)) > 0
  /\ Cardinality(TiedCategories(comment_)) >= 2

---------------------------------------------------------------------------
(* C1 *)

\* C1, as stated: when the maximum keyword score is positive and shared by
\* two or more categories, the keyword classification is the tied category
\* that comes first in the declared order LEAD, PRAISE, SPAM, QUESTION,
\* COMPLAINT.
C1_TieBreakDeclaredOrder ==
  (Done /\ KeywordFallback /\ ScoreTie(comment[1]))
    => result[1].value.category
         = EarliestIn(categories, TiedCategories(comment[1]))

\* C1, amended: when the maximum keyword score is positive and shared by two
\* or more categories, the keyword classification is the tied category that
\* comes first in the order of the scorer's keyword table: LEAD, PRAISE,
\* SPAM, COMPLAINT, QUESTION; a QUESTION/COMPLAINT tie gives COMPLAINT.
C1_TieBreakPatternOrder ==
  (Done /\ KeywordFallback /\ ScoreTie(comment[1]))
    => /\ result[1].value.category
            = EarliestIn(PatternOrder, TiedCategories(comment[1]))
       /\ {"QUESTION", "COMPLAINT"} \subseteq TiedCategories(comment[1])
            /\ TiedCategories(comment[1]) \cap {"LEAD", "PRAISE", "SPAM"} = {}
            => result[1].value.category = "COMPLAINT"

\* A QUESTION/COMPLAINT tie has been classified by the keyword scorer.
C1_Witness ==
  /\ Done /\ KeywordFallback
  /\ comment[1] = "How doubt"
  /\ TiedCategories(comment[1]) = {"QUESTION", "COMPLAINT"}
  /\ scores(comment[1])[4] = 2
  /\ result[1].value.category = "COMPLAINT"

---------------------------------------------------------------------------
(* C2 *)

\* C2: for every non-empty comment and every behaviour of the zero-shot
\* classifier (a known description, an unmapped label, no label, or an
\* exception), classify_comment returns, without raising, one string that is
\* one of LEAD, PRAISE, SPAM, QUESTION, COMPLAINT.
C2_TotalCoverage ==
  Done =>
    /\ comment[1] # ""
    /\ ~classify_comment(comment[1], classifier_out).raised
    /\ classify_comment(comment[1], classifier_out).value \in Categories
    /\ ~result[1].raised
    /\ result[1].value.category \in Categories

\* A comment without any keyword has been classified after the classifier
\* returned a label that is no description.
C2_Witness ==
  /\ Done
  /\ comment[1] = "hello"
  /\ classifier_out = ClassifierResult(<<UnmappedLabel>>)
  /\ MaxOf(scores(comment[1])) = 0
  /\ result[1].value.category = "QUESTION"

---------------------------------------------------------------------------
(* C3 *)

\* C3: when the zero-shot classifier raises, or its top label equals none
\* of the category descriptions, classify_comment returns the keyword
\* classification of the same comment; when the top label is the description
\* of category C, it returns C.
C3_ClassifierFallback ==
  Done =>
    /\ KeywordFallback
         => result[1].value.category = spiritual_keyword_classification(comment[1])
    /\ \A i \in 1..Len(category_descriptions) :
         (/\ classifier_out.kind = "result"
          /\ Len(classifier_out.labels) > 0
          /\ classifier_out.labels[1] = category_descriptions[i].desc)
           => result[1].value.category = category_descriptions[i].cat

\* The classifier raised on a comment the keyword scorer does not give the
\* default category.
C3_Witness ==
  /\ Done
  /\ classifier_out = ClassifierRaises
  /\ comment[1] = "amazing"
  /\ result[1].value.category = "PRAISE"

\* The classifier's top label was a description, against the keywords.
C3_WitnessMapped ==
  /\ Done
  /\ comment[1] = "amazing"
  /\ classifier_out = ClassifierResult(<<category_descriptions[5].desc>>)
  /\ result[1].value.category = "COMPLAINT"

---------------------------------------------------------------------------
(* C4 *)

\* The cleaned generation of the call fails _is_valid_spiritual_reply.
GenerationInvalid ==
  /\ generator_out.kind = "result"
  /\ ~is_valid_spiritual_reply(
        gpt2_reply(comment[1], result[1].value.category, generator_out),
        result[1].value.category)

\* The Template Responder's answer for (category, context, comment): the
\* template of the bucket of the category and context at the index the
\* comment's length selects.
TemplateAnswer(category, context, comment_) ==
  TemplateBucket(category, context)
    [(Len(comment_) % Len(TemplateBucket(category, context))) + 1]

\* C4: for every comment and category, if the text generation raises (or
\* returns no generated text), or the cleaned generation fails validation,
\* generate_reply returns get_template_response(category, comment), which is
\* the Template Responder's answer for (category, context of the comment,
\* comment).
C4_ReplyFallback ==
  (Done /\ (generator_out.kind # "result" \/ GenerationInvalid))
    => /\ result[1].value.reply
            = get_template_response(result[1].value.category, comment[1])
       /\ result[1].value.reply
            = TemplateAnswer(result[1].value.category,
                             get_keyword_context(comment[1]), comment[1])

\* A generation with a marketing phrase was rejected for a PRAISE comment,
\* and the template of the general bucket at index 7 % 3 was returned.
C4_Witness ==
  /\ Done
  /\ comment[1] = "amazing"
  /\ result[1].value.category = "PRAISE"
  /\ generator_out = GeneratorResult(TRUE, " Buy now and get a discount. Hurry")
  /\ GenerationInvalid
  /\ result[1].value.reply = SPIRITUAL_TEMPLATES["PRAISE"]["general"][2]

---------------------------------------------------------------------------
(* C5 *)

\* Every configured template, and the hard-coded last resort.
AllTemplates ==
  UNION {UNION {{SPIRITUAL_TEMPLATES[c][b][i] :
                   i \in 1..Len(SPIRITUAL_TEMPLATES[c][b])} :
                  b \in DOMAIN SPIRITUAL_TEMPLATES[c]} :
           c \in DOMAIN SPIRITUAL_TEMPLATES}
  \cup {HardCodedTemplates[i] : i \in 1..Len(HardCodedTemplates)}

\* The text is not empty, has the minimum length, and holds no disallowed
\* marketing phrase in any case.
SafeReply(text) ==
  /\ text # ""
  /\ Len(text) >= 20
  /\ \A phrase \in {"click here", "buy now", "limited time", "act now", "deal",
                    "discount", "offer expires", "hurry"} :
       ~Contains(lower(text), phrase)

\* Every configured template and the hard-coded last resort are safe.
TemplatesSafe == \A t \in AllTemplates : SafeReply(t)

\* C5: for all categories, all comments and all behaviours of the generator
\* (any text, or an error), the reply generate_reply returns is not empty,
\* has at least 20 characters, and holds none of the disallowed marketing
\* phrases in any case; so do every configured template and the hard-coded
\* last resort.
C5_ReplySafety ==
  /\ TemplatesSafe
  /\ Done => /\ ~result[1].raised
             /\ SafeReply(result[1].value.reply)

\* A generation with marketing phrases, which would pass the tone check of a
\* SPAM comment, was not returned.
C5_Witness ==
  /\ Done
  /\ result[1].value.category = "SPAM"
  /\ generator_out = GeneratorResult(TRUE, " Buy now and get a discount. Hurry")
  /\ gpt2_reply(comment[1], "SPAM", generator_out)
       = "Buy now and get a discount. Hurry."
  /\ result[1].value.reply \in AllTemplates

\* A generation was returned as the reply.
C5_WitnessModel ==
  /\ Done
  /\ generator_out.kind = "result"
  /\ result[1].value.reply
       = "May grace and peace be with you today. God bless your journey."
  /\ result[1].value.reply \notin AllTemplates

---------------------------------------------------------------------------
(* C9 *)

\* C9: for every non-empty comment and every combination of classifier and
\* generator outcomes (success, malformed or unmapped output, exception),
\* process_comment returns, with no exception escaping, a record with exactly
\* the keys comment, category, reply, context: comment is the input, category
\* one of the five categories, reply the reply generated for that category,
\* and context is get_keyword_context(comment).
C9_CoreTotality ==
  Done =>
    /\ ~result[1].raised
    /\ DOMAIN result[1].value = {"comment", "category", "reply", "context"}
    /\ result[1].value.comment = comment[1]
    /\ result[1].value.category \in Categories
    /\ result[1].value.category
         = classify_comment(comment[1], classifier_out).value
    /\ ~generate_reply(comment[1], result[1].value.category, generator_out).raised
    /\ result[1].value.reply
         = generate_reply(comment[1], result[1].value.category, generator_out).value
    /\ result[1].value.context = get_keyword_context(comment[1])

\* Both pipelines raised, and process_comment returned a record: the keyword
\* classification and the last resort of the template responder.
C9_Witness ==
  /\ Done
  /\ classifier_out = ClassifierRaises
  /\ generator_out = GeneratorRaises
  /\ comment[1] = "I'm interested in your services. How can I get started?"
  /\ ~result[1].raised
  /\ result[1].value.category = "QUESTION"
  /\ result[1].value.context = "general"
  /\ result[1].value.reply = HardCodedTemplates[1]

---------------------------------------------------------------------------
(* States of the CRM integration the properties speak of *)

\* GHLIntegration.process_comment has returned or raised, and the result is
\* not yet taken.
GhlDone == ghl_result # <<>>

\* The texts, in order, of the requests of one kind the call issued.
RECURSIVE TextsOf(_, _)
TextsOf(reqs, kind) ==
  IF reqs = <<>> THEN <<>>
  ELSE (IF Head(reqs).kind = kind THEN <<Head(reqs).text>> ELSE <<>>)
       \o TextsOf(Tail(reqs), kind)

\* The keyword families of the integration, in the order of the table.
Families == [i \in 1..Len(InitKeywordMappings) |-> InitKeywordMappings[i].category]

\* The families of S as a list, in the order of the table, from the i-th on.
RECURSIVE FamilyList(_, _)
FamilyList(S, i) ==
  IF i > Len(Families) THEN <<>>
  ELSE (IF Families[i] \in S THEN <<Families[i]>> ELSE <<>>) \o FamilyList(S, i + 1)

\* Every list of matched families check_keywords can return.
KeywordMatchLists ==
  {FamilyList(S, 1) : S \in SUBSET {Families[i] : i \in 1..Len(Families)}}

---------------------------------------------------------------------------
(* C6 *)

\* base + 10 if 'interested' matched + 15 if 'hot_lead' matched, at most 100.
CappedScore(base, keyword_matches) ==
  LET total == base + (IF InList("interested", keyword_matches) THEN 10 ELSE 0)
                    + (IF InList("hot_lead", keyword_matches) THEN 15 ELSE 0)
  IN  IF total > 100 THEN 100 ELSE total

\* The base score of a category: its entry in the table, 30 without one.
BaseScore(category) ==
  IF category \in DOMAIN category_scores THEN category_scores[category] ELSE 30

\* The score of every category, configured or not, with every list of
\* matched families.
ScoresWithinBounds ==
  \A category \in GhlCategories, keyword_matches \in KeywordMatchLists :
    /\ calculate_engagement_score(category, keyword_matches) \in 0..100
    /\ calculate_engagement_score(category, keyword_matches)
         = CappedScore(BaseScore(category), keyword_matches)

\* C6: for every category, also one outside the table, and every set of
\* keyword matches, calculate_engagement_score returns an integer from 0 to
\* 100, which is min(base + 10 if 'interested' matched + 15 if 'hot_lead'
\* matched, 100); for SPAM without a match it is 0.  The score sent to the
\* CRM with the custom fields is this score of the call's category and
\* comment.
C6_ScoreBounds ==
  /\ ScoresWithinBounds
  /\ calculate_engagement_score("SPAM", <<>>) = 0
  /\ GhlDone =>
       \A i \in 1..Len(requests) :
         requests[i].kind = "fields" =>
           /\ requests[i].score \in 0..100
           /\ requests[i].score
                = CappedScore(BaseScore(ghl_call[1].category),
                              check_keywords(keyword_mappings, ghl_call[1].comment))

\* A LEAD comment matching 'interested' and 'hot_lead' was scored: 80 + 10 +
\* 15 is capped at 100.
C6_Witness ==
  /\ GhlDone
  /\ ghl_call[1].category = "LEAD"
  /\ ghl_call[1].comment = "interested now"
  /\ check_keywords(keyword_mappings, ghl_call[1].comment)
       = <<"interested", "hot_lead">>
  /\ \E i \in 1..Len(requests) :
       requests[i].kind = "fields" /\ requests[i].score = 100

---------------------------------------------------------------------------
(* C7 *)

\* C7, as stated: after initialization, every sequence of comment-processing
\* calls leaves the configuration tables unchanged: category_tags,
\* keyword_mappings and workflow_rules equal their initial values after
\* every call.
C7_ConfigurationReadOnly ==
  /\ category_tags = InitCategoryTags
  /\ keyword_mappings = InitKeywordMappings
  /\ workflow_rules = InitWorkflowRules

---------------------------------------------------------------------------
(* C8 *)

\* The configured tags of the category followed by one 'keyword-<family>'
\* tag for each family the comment matches.
ExpectedTags(category, comment_) ==
  AppendKeywordTags(
    IF category \in DOMAIN InitCategoryTags THEN InitCategoryTags[category] ELSE <<>>,
    check_keywords(InitKeywordMappings, comment_), 1)

\* The call got a contact, and so reached the tagging step.
ReachedTagging == GhlDone /\ ~ghl_result[1].raised /\ ~ghl_result[1].results.has_error

\* C8, as stated: in every call of GHLIntegration.process_comment that
\* reaches the tagging step, the tags sent to the CRM are the configured tags
\* of the call's category followed by one 'keyword-<family>' tag for each
\* family this call's comment matches (all of them when no tag request
\* fails, the first ones up to the failing request otherwise), and tags_added
\* holds the same list on success; no tag comes from an earlier comment.
C8_TagsFromCurrentComment ==
  ReachedTagging =>
    LET expected == ExpectedTags(ghl_call[1].category, ghl_call[1].comment)
        sent == TextsOf(requests, "tag")
    IN  /\ Len(sent) <= Len(expected)
        /\ sent = SubSeq(expected, 1, Len(sent))
        /\ ghl_call[1].crm.tags = "ok" =>
             /\ sent = expected
             /\ ghl_result[1].results.tags_added = expected

---------------------------------------------------------------------------
(* C10 *)

\* The CRM failed the search, the creation or the update of the contact.
ContactFailed == ghl_call[1].crm.search # "ok" \/ ghl_call[1].crm.upsert # "ok"

\* C10, as stated: whatever CRM call fails during process_comment (an
\* exception or a failure status in the search, creation, update, tagging,
\* custom fields or workflow trigger), and also when contact_info lacks
\* fields, process_comment returns a result dictionary and does not raise;
\* when the contact cannot be created or updated, the result has an 'error'
\* field.
C10_FailureContainment ==
  GhlDone =>
    /\ ~ghl_result[1].raised
    /\ ContactFailed => ghl_result[1].results.has_error

---------------------------------------------------------------------------
(* C11 *)

\* Number of the trigger requests of the call for the workflows of the set.
TriggerCount(names) ==
  Cardinality({i \in 1..Len(requests) :
                 requests[i].kind = "workflow" /\ requests[i].text \in names})

\* The workflow names of the static table.
CategoryWorkflows == {InitWorkflowRules[c] : c \in DOMAIN InitWorkflowRules}

\* The comment of the call matches the hot_lead keyword family.
HotLeadMatched ==
  \E i \in 1..Len(InitKeywordMappings) :
    /\ InitKeywordMappings[i].category = "hot_lead"
    /\ ContainsAny(lower(ghl_call[1].comment), InitKeywordMappings[i].keywords)

\* At most one trigger of the category workflow, and only for a category of
\* the static table, whose workflow it is; at most two triggers in all.
CategoryTriggerBounded ==
  /\ TriggerCount(CategoryWorkflows) <= 1
  /\ TriggerCount(CategoryWorkflows) = 1 =>
       /\ ghl_call[1].category \in {"LEAD", "COMPLAINT", "PRAISE"}
       /\ TriggerCount({InitWorkflowRules[ghl_call[1].category]}) = 1
  /\ TriggerCount({"urgent_lead_notification"}) <= 1
  /\ TriggerCount(CategoryWorkflows \cup {"urgent_lead_notification"}) <= 2
  /\ TriggerCount(CategoryWorkflows \cup {"urgent_lead_notification"})
       = Cardinality({i \in 1..Len(requests) : requests[i].kind = "workflow"})

\* C11, as stated: in one call of GHLIntegration.process_comment the category
\* workflow is triggered at most once and only for a category of the static
\* table (LEAD, COMPLAINT, PRAISE), and 'urgent_lead_notification' is
\* triggered exactly once if and only if the comment matches the hot_lead
\* family, whatever the category and the outcome of the category trigger; at
\* most two trigger requests per comment.
C11_WorkflowTriggers ==
  GhlDone =>
    /\ CategoryTriggerBounded
    /\ TriggerCount({"urgent_lead_notification"}) = 1 <=> HotLeadMatched

\* C11, amended: as stated for the calls that obtain a contact; a call whose
\* contact search, creation or update ends in an error returns before the
\* workflow step and triggers no workflow, the urgent one included, even when
\* the comment matches the hot_lead family.
C11_WorkflowTriggersWithContact ==
  GhlDone =>
    /\ CategoryTriggerBounded
    /\ ReachedTagging =>
         /\ TriggerCount({"urgent_lead_notification"}) = 1 <=> HotLeadMatched
         /\ ghl_result[1].results.hot_lead_alert <=> HotLeadMatched
    /\ ~ReachedTagging =>
         TriggerCount(CategoryWorkflows \cup {"urgent_lead_notification"}) = 0

\* A hot-lead LEAD comment whose category trigger the CRM refused: the urgent
\* workflow was triggered all the same, two trigger requests in all.
C11_Witness ==
  /\ GhlDone /\ ReachedTagging
  /\ ghl_call[1].category = "LEAD"
  /\ ghl_call[1].crm.workflow = "status"
  /\ HotLeadMatched
  /\ ~ghl_result[1].results.workflow_triggered
  /\ TriggerCount({"social_media_lead_workflow"}) = 1
  /\ TriggerCount({"urgent_lead_notification"}) = 1

\* A hot-lead comment in a call that got no contact: no trigger at all.
C11_WitnessNoContact ==
  /\ GhlDone /\ ~ReachedTagging
  /\ HotLeadMatched
  /\ TriggerCount({"urgent_lead_notification"}) = 0

---------------------------------------------------------------------------
(* C12 *)

\* The requests of one kind the call issued.
RequestsOf(kind) == SelectSeq(requests, LAMBDA r : r.kind = kind)

\* The contacts the CRM held when the call began: the call adds at most one
\* contact, at the end, when it reports a creation.
ContactsBefore ==
  IF ghl_result[1].results.contact_created
  THEN SubSeq(contacts, 1, Len(contacts) - 1) ELSE contacts

\* The contacts of the list with the e-mail address.
WithEmail(store, email) == SelectSeq(store, LAMBDA c : c.email = email)

\* The call is for an e-mail address of a contact an earlier call created,
\* and the CRM answers its search.
SecondUpsert ==
  /\ GhlDone
  /\ ghl_call[1].contact_info.email # <<>>
  /\ ghl_call[1].crm.search = "ok"
  /\ WithEmail(ContactsBefore, ghl_call[1].contact_info.email) # <<>>

\* The CRM holds at most one contact for an e-mail address.
NoDuplicateContact ==
  \A i, j \in 1..Len(contacts) :
    (contacts[i].email = contacts[j].email /\ contacts[i].email # <<>>) => i = j

\* The call issued one update, for the contact of the address, no creation,
\* and every later request of the call is for that contact.
UpdatedSameContact ==
  LET existing == WithEmail(ContactsBefore, ghl_call[1].contact_info.email)[1].id
  IN  /\ Len(RequestsOf("create")) = 0
      /\ Len(RequestsOf("update")) = 1
      /\ RequestsOf("update")[1].id = existing
      /\ \A i \in 1..Len(requests) :
           requests[i].kind \in {"tag", "fields", "workflow"}
             => requests[i].id = existing

\* C12, as stated: with a CRM that answers searches faithfully, once a
\* contact was created for an e-mail address, every later upsert for the
\* address issues an update, never a second creation, and returns created =
\* False with the same contact id; the CRM never holds two contacts created
\* for one address.
C12_IdempotentUpsert ==
  /\ NoDuplicateContact
  /\ SecondUpsert =>
       /\ UpdatedSameContact
       /\ ~ghl_result[1].results.has_error
       /\ ~ghl_result[1].results.contact_created
       /\ ghl_result[1].results.contact_updated

\* C12, amended: as stated, except that an update request that raises makes
\* the upsert return an error instead of created = False and the contact id;
\* also then no second contact is created.
C12_IdempotentUpsertUnlessRaise ==
  /\ NoDuplicateContact
  /\ SecondUpsert =>
       /\ UpdatedSameContact
       /\ ~ghl_result[1].results.contact_created
       /\ contacts = ContactsBefore
       /\ IF ghl_call[1].crm.upsert = "raise"
          THEN /\ ghl_result[1].results.has_error
               /\ ~ghl_result[1].results.contact_updated
          ELSE /\ ~ghl_result[1].results.has_error
               /\ ghl_result[1].results.contact_updated

\* A second upsert for the address of a contact created before: an update of
\* contact 1, and still one contact for the address.
C12_Witness ==
  /\ SecondUpsert
  /\ ghl_call[1].crm.upsert = "ok"
  /\ ghl_call[1].contact_info.email = <<"a@example.com">>
  /\ Len(WithEmail(contacts, <<"a@example.com">>)) = 1
  /\ RequestsOf("update") # <<>>
  /\ ghl_result[1].results.contact_updated

---------------------------------------------------------------------------
(* C13 *)

\* The reply of the call is the template response: the generator raised or
\* returned no generated text.
TemplateReply == Done /\ ~result[1].raised /\ generator_out.kind # "result"

\* The strings of a bucket.
Elements(bucket) == {bucket[i] : i \in 1..Len(bucket)}

\* The key of the bucket the chain selects in a template set: the context,
\* else 'general', else 'default'; 'none' when the set has none of them.
ChainKey(template_set, context) ==
  IF context \in DOMAIN template_set THEN context
  ELSE IF "general" \in DOMAIN template_set THEN "general"
  ELSE IF "default" \in DOMAIN template_set THEN "default"
  ELSE "none"

\* The template comes from the bucket of the key in the category's set, and
\* from no other bucket; with the key 'none' it is the hard-coded string, and
\* from no bucket.
FromBucket(reply, category, key) ==
  /\ key # "none" => reply \in Elements(SPIRITUAL_TEMPLATES[category][key])
  /\ key = "none" => reply = "Thank you for reaching out. Blessings to you."
  /\ \A c \in DOMAIN SPIRITUAL_TEMPLATES :
       \A b \in DOMAIN SPIRITUAL_TEMPLATES[c] :
         reply \in Elements(SPIRITUAL_TEMPLATES[c][b]) => c = category /\ b = key

\* C13: for every category and comment, get_template_response takes its
\* template from the bucket of the comment's context when the category's
\* template set has one, else from the 'general' bucket when the set has one,
\* else from the 'default' bucket when the set has one, else it is the
\* hard-coded string 'Thank you for reaching out. Blessings to you.'; no
\* other bucket is used.
C13_BucketResolution ==
  TemplateReply =>
    /\ FromBucket(result[1].value.reply, result[1].value.category,
                  ChainKey(SPIRITUAL_TEMPLATES[result[1].value.category],
                           result[1].value.context))
    /\ FromBucket(get_template_response(result[1].value.category, comment[1]),
                  result[1].value.category,
                  ChainKey(SPIRITUAL_TEMPLATES[result[1].value.category],
                           get_keyword_context(comment[1])))

\* A LEAD comment whose context, praise, is no bucket of LEAD: the template
\* comes from the 'general' bucket.
C13_Witness ==
  /\ TemplateReply
  /\ comment[1] = "amazing"
  /\ result[1].value.category = "LEAD"
  /\ result[1].value.context = "praise"
  /\ result[1].value.reply \in Elements(SPIRITUAL_TEMPLATES["LEAD"]["general"])

\* A PRAISE comment with the context emotional: the bucket of the context.
C13_WitnessContext ==
  /\ TemplateReply
  /\ comment[1] = "tears"
  /\ result[1].value.category = "PRAISE"
  /\ result[1].value.context = "emotional"
  /\ result[1].value.reply \in Elements(SPIRITUAL_TEMPLATES["PRAISE"]["emotional"])

\* A SPAM comment: the 'default' bucket.
C13_WitnessDefault ==
  /\ TemplateReply
  /\ result[1].value.category = "SPAM"
  /\ result[1].value.context = "general"
  /\ result[1].value.reply \in Elements(SPIRITUAL_TEMPLATES["SPAM"]["default"])

\* A COMPLAINT comment with a context that is no bucket of COMPLAINT, which
\* has no 'general' and no 'default' bucket: the hard-coded string.
C13_WitnessHardCoded ==
  /\ TemplateReply
  /\ result[1].value.category = "COMPLAINT"
  /\ result[1].value.context = "doubt"
  /\ result[1].value.reply = "Thank you for reaching out. Blessings to you."

---------------------------------------------------------------------------
(* C14 *)

\* The comments with the length and the context of the comment.
SameLengthAndContext(comment_) ==
  {c \in Comments : /\ Len(c) = Len(comment_)
                    /\ get_keyword_context(c) = get_keyword_context(comment_)}

\* C14: in its bucket get_template_response returns the element at index
\* (length of the comment) mod (size of the bucket).  The template is thus a
\* function of the comment and the category alone: in every state, whatever
\* calls came before, the template returned for a comment and category is
\* this element, and a comment of the same length and context gets the same
\* template for the category.
C14_TemplateIndexStable ==
  TemplateReply =>
    /\ result[1].value.reply
         = TemplateAnswer(result[1].value.category,
                          get_keyword_context(comment[1]), comment[1])
    /\ get_template_response(result[1].value.category, comment[1])
         = result[1].value.reply
    /\ \A c \in SameLengthAndContext(comment[1]) :
         get_template_response(result[1].value.category, c) = result[1].value.reply

\* The template of a comment of five characters for LEAD: index 5 mod 3 of
\* the 'general' bucket, the same as for another comment of five characters
\* and the same context.
C14_Witness ==
  /\ TemplateReply
  /\ comment[1] = "How ?"
  /\ result[1].value.category = "LEAD"
  /\ "hello" \in SameLengthAndContext(comment[1])
  /\ result[1].value.reply = SPIRITUAL_TEMPLATES["LEAD"]["general"][3]
  /\ result[1].value.reply = get_template_response("LEAD", "hello")

---------------------------------------------------------------------------
(* C15 *)

\* The lower-cased text holds a keyword of the scorer's table other than '?'.
MatchesWord(text) ==
  \E i \in 1..Len(patterns) :
    \E k \in 1..Len(patterns[i].keywords) :
      patterns[i].keywords[k] # "?" /\ Contains(lower(text), patterns[i].keywords[k])

\* The comment matches no keyword of any category and holds no '?'.
NoKeyword(comment_) == ~MatchesWord(comment_) /\ ~Contains(comment_, "?")

\* C15: when a comment matches no keyword of any category and holds no '?',
\* every category score is zero and _spiritual_keyword_classification
\* returns QUESTION.
C15_DefaultCategory ==
  (Done /\ KeywordFallback /\ NoKeyword(comment[1]))
    => /\ \A i \in 1..Len(patterns) : scores(comment[1])[i] = 0
       /\ result[1].value.category = "QUESTION"
       /\ spiritual_keyword_classification(comment[1]) = "QUESTION"

\* A comment without any keyword was classified by the keyword scorer.
C15_Witness ==
  /\ Done
  /\ classifier_out = ClassifierRaises
  /\ comment[1] = "My order hasn't arrived and it's been 2 weeks!"
  /\ NoKeyword(comment[1])
  /\ result[1].value.category = "QUESTION"

---------------------------------------------------------------------------
(* C16 *)

\* The score of a category of the scorer's table.
ScoreOf(category, comment_) ==
  scores(comment_)[CHOOSE i \in 1..Len(patterns) : patterns[i].category = category]

\* comment.replace('?', ''): the comment with every '?' removed.
WithoutQuestionMarks(comment_) == remove(comment_, "?")

\* The comment holds a '?' and matches no other keyword.
OnlyQuestionMark(comment_) == Contains(comment_, "?") /\ ~MatchesWord(comment_)

\* The QUESTION score of the comment is greater than without its '?', and
\* the other scores are the same.
QuestionBonus(comment_) ==
  /\ ScoreOf("QUESTION", comment_)
       > ScoreOf("QUESTION", WithoutQuestionMarks(comment_))
  /\ \A c \in Categories \ {"QUESTION"} :
       ScoreOf(c, comment_) = ScoreOf(c, WithoutQuestionMarks(comment_))

\* C16, as stated: for a comment that holds a '?' and matches no other
\* keyword, the QUESTION score of the keyword scorer is strictly greater than
\* the QUESTION score of the comment with every '?' removed, and the scores
\* of the other categories are equal for the two comments.
C16_QuestionBonus ==
  (comment # NoComment /\ OnlyQuestionMark(comment[1]))
    => QuestionBonus(comment[1])

\* C16, amended: the same for a comment that, in addition, matches no keyword
\* once its '?' are removed (removing a '?' inside a word can join the pieces
\* of a keyword); its QUESTION score is then 5 with the '?' and 0 without, and
\* the keyword scorer classifies it QUESTION.
C16_QuestionBonusNoJoinedKeyword ==
  (comment # NoComment /\ OnlyQuestionMark(comment[1])
     /\ ~MatchesWord(WithoutQuestionMarks(comment[1])))
    => /\ QuestionBonus(comment[1])
       /\ ScoreOf("QUESTION", comment[1]) = 5
       /\ ScoreOf("QUESTION", WithoutQuestionMarks(comment[1])) = 0
       /\ (Done /\ KeywordFallback) => result[1].value.category = "QUESTION"

\* A comment with a '?' and no other keyword was classified by the keyword
\* scorer: 5 for QUESTION, 0 without the '?'.
C16_Witness ==
  /\ Done /\ KeywordFallback
  /\ comment[1] = "hello ?"
  /\ OnlyQuestionMark(comment[1])
  /\ WithoutQuestionMarks(comment[1]) = "hello "
  /\ ScoreOf("QUESTION", comment[1]) = 5
  /\ ScoreOf("QUESTION", "hello ") = 0
  /\ result[1].value.category = "QUESTION"

\* A comment whose '?' splits a keyword of COMPLAINT: without the '?' the
\* COMPLAINT score is 2, with it 0.
C16_WitnessJoinedKeyword ==
  /\ comment # NoComment
  /\ comment[1] = "dou?bt"
  /\ OnlyQuestionMark(comment[1])
  /\ ScoreOf("COMPLAINT", comment[1]) = 0
  /\ ScoreOf("COMPLAINT", WithoutQuestionMarks(comment[1])) = 2

---------------------------------------------------------------------------
(* C17 *)

\* The lower-cased comment holds a keyword of the category in the scorer's
\* table.
MatchesCategory(category, comment_) ==
  \E i \in 1..Len(patterns) :
    /\ patterns[i].category = category
    /\ ContainsAny(lower(comment_), patterns[i].keywords)

\* The comment holds a keyword of one of SPIRITUAL_KEYWORDS' contexts.
MatchesContext(comment_) ==
  \E i \in 1..Len(SPIRITUAL_KEYWORDS) :
    ContainsAny(lower(comment_), SPIRITUAL_KEYWORDS[i].keywords)

\* The comment matches SPAM keywords, no keyword of another category and no
\* context keyword.
SpamOnly(comment_) ==
  /\ MatchesCategory("SPAM", comment_)
  /\ \A c \in Categories \ {"SPAM"} : ~MatchesCategory(c, comment_)
  /\ ~MatchesContext(comment_)

\* C17: with the classification falling back to keywords, a comment that
\* matches SPAM keywords, no keyword of another category and no context
\* keyword, such as 'Click here for free followers!!! www.spam.com', is
\* classified SPAM; with the generator failing, its reply is an element of
\* the 'default' bucket of SPAM.
C17_SpamScenario ==
  (Done /\ KeywordFallback /\ SpamOnly(comment[1]))
    => /\ result[1].value.category = "SPAM"
       /\ result[1].value.context = "general"
       /\ generator_out.kind # "result"
            => result[1].value.reply
                 \in Elements(SPIRITUAL_TEMPLATES["SPAM"]["default"])

\* The sample was classified by the keywords 'click here' and 'free
\* followers' and answered with the template at index 45 mod 3.
C17_Witness ==
  /\ Done
  /\ classifier_out = ClassifierRaises
  /\ generator_out = GeneratorRaises
  /\ comment[1] = "Click here for free followers!!! www.spam.com"
  /\ SpamOnly(comment[1])
  /\ Contains(lower(comment[1]), "click here")
  /\ Contains(lower(comment[1]), "free followers")
  /\ result[1].value.category = "SPAM"
  /\ result[1].value.reply = SPIRITUAL_TEMPLATES["SPAM"]["default"][1]

---------------------------------------------------------------------------
(* C18 *)

\* The comment holds '?' and 'what' and no keyword of another category.
QuestionOnly(comment_) ==
  /\ Contains(comment_, "?")
  /\ Contains(lower(comment_), "what")
  /\ \A c \in Categories \ {"QUESTION"} : ~MatchesCategory(c, comment_)

\* The configured templates of QUESTION and the hard-coded string.
QuestionTemplates ==
  UNION {Elements(SPIRITUAL_TEMPLATES["QUESTION"][b]) :
           b \in DOMAIN SPIRITUAL_TEMPLATES["QUESTION"]}
  \cup {"Thank you for reaching out. Blessings to you."}

\* C18: with the classifier failing, a comment with '?' and 'what' and no
\* keyword of another category, such as 'What are your business hours?', is
\* classified QUESTION by the keyword scorer; when the generator fails too,
\* the reply is the Template Responder's answer for QUESTION and the
\* comment's context, a configured QUESTION template or the hard-coded
\* string, never text of the model.
C18_QuestionScenario ==
  (Done /\ KeywordFallback /\ QuestionOnly(comment[1]))
    => /\ result[1].value.category = "QUESTION"
       /\ ScoreOf("QUESTION", comment[1]) >= 7
       /\ generator_out.kind # "result"
            => /\ result[1].value.reply
                    = TemplateAnswer("QUESTION", get_keyword_context(comment[1]),
                                     comment[1])
               /\ result[1].value.reply \in QuestionTemplates

\* The sample was classified with the score 2 + 2 + 3, and answered, its
\* context being general, with the hard-coded string.
C18_Witness ==
  /\ Done
  /\ classifier_out = ClassifierRaises
  /\ generator_out = GeneratorRaises
  /\ comment[1] = "What are your business hours?"
  /\ QuestionOnly(comment[1])
  /\ ScoreOf("QUESTION", comment[1]) = 7
  /\ result[1].value.category = "QUESTION"
  /\ result[1].value.context = "general"
  /\ result[1].value.reply = "Thank you for reaching out. Blessings to you."

---------------------------------------------------------------------------
(* C19 *)

\* The text holds, in any case, a tone-indicator word or an acknowledgment
\* phrase.
HasTone(text) ==
  \E w \in {"grace", "god", "bless", "journey", "heart", "soul", "faith", "hope",
            "peace", "love", "truth", "sacred",
            "thank you", "grateful", "appreciate", "understand", "hear you",
            "with you", "for you", "honored"} :
    Contains(lower(text), w)

\* The generator returned a text, whose cleaned form is CleanedText.
Generated == Done /\ ~result[1].raised /\ generator_out.kind = "result"

CleanedText == gpt2_reply(comment[1], result[1].value.category, generator_out)

\* The reply of the call is the cleaned text of the model, and no template.
ModelReply ==
  /\ Generated
  /\ result[1].value.reply = CleanedText
  /\ result[1].value.reply
       # get_template_response(result[1].value.category, comment[1])

\* C19, as stated: for each of the five categories, generate_reply returns
\* the cleaned text of the model only if the text holds a tone-indicator word
\* or an acknowledgment phrase; a cleaned generation with none of them is
\* rejected, and the template response is returned.
C19_ToneEveryCategory ==
  Generated =>
    /\ ModelReply => HasTone(result[1].value.reply)
    /\ ~HasTone(CleanedText)
         => result[1].value.reply
              = get_template_response(result[1].value.category, comment[1])

\* C19, amended: the same for the categories LEAD, PRAISE, QUESTION and
\* COMPLAINT; for SPAM no tone word is asked for: a cleaned generation of 20
\* characters or more without a disallowed marketing phrase is returned,
\* with or without a tone word.
C19_ToneExceptSpam ==
  Generated =>
    /\ result[1].value.category \in {"LEAD", "PRAISE", "QUESTION", "COMPLAINT"} =>
         /\ ModelReply => HasTone(result[1].value.reply)
         /\ ~HasTone(CleanedText)
              => result[1].value.reply
                   = get_template_response(result[1].value.category, comment[1])
    /\ (result[1].value.category = "SPAM" /\ SafeReply(CleanedText))
         => result[1].value.reply = CleanedText

\* A generation without a tone word was rejected for a LEAD comment.
C19_Witness ==
  /\ Generated
  /\ result[1].value.category = "LEAD"
  /\ CleanedText = "See you at the store next week maybe."
  /\ ~HasTone(CleanedText)
  /\ result[1].value.reply \in AllTemplates

\* The same generation was returned for a SPAM comment.
C19_WitnessSpam ==
  /\ ModelReply
  /\ result[1].value.category = "SPAM"
  /\ result[1].value.reply = "See you at the store next week maybe."
  /\ ~HasTone(result[1].value.reply)

\* A generation with a tone word was returned for a COMPLAINT comment.
C19_WitnessTone ==
  /\ ModelReply
  /\ result[1].value.category = "COMPLAINT"
  /\ HasTone(result[1].value.reply)

---------------------------------------------------------------------------
(* C20 *)

\* The positions of the calls of a callee in the call's sequence of calls.
CallsOf(callee) == {i \in 1..Len(invocations) : invocations[i] = callee}

\* Every call of the first callee comes before every call of the second.
Before(first, second) ==
  \A i \in CallsOf(first) : \A j \in CallsOf(second) : i < j

\* C20: in one call of process_comment the zero-shot classifier is invoked
\* exactly once and the text generator exactly once; a failed call is not
\* issued again; the classifier call, and the keyword fallback when there is
\* one, come before the generator call, and so does the computation of the
\* template response.
C20_NoRetryFixedOrder ==
  Done =>
    /\ Cardinality(CallsOf("classifier")) = 1
    /\ Cardinality(CallsOf("generator")) = 1
    /\ Cardinality(CallsOf("get_template_response")) = 1
    /\ Cardinality(CallsOf("_spiritual_keyword_classification"))
         = (IF KeywordFallback THEN 1 ELSE 0)
    /\ Before("classifier", "_spiritual_keyword_classification")
    /\ Before("classifier", "generator")
    /\ Before("_spiritual_keyword_classification", "generator")
    /\ Before("get_template_response", "generator")
    /\ Before("classifier", "get_template_response")

\* Both pipelines raised: one call of each, the keyword fallback and the
\* template response between them.
C20_Witness ==
  /\ Done
  /\ classifier_out = ClassifierRaises
  /\ generator_out = GeneratorRaises
  /\ invocations = <<"classifier", "_spiritual_keyword_classification",
                     "get_template_response", "generator", "get_keyword_context">>

---------------------------------------------------------------------------
(* C21 *)

\* The prompt given to the generator in the finished call.
PromptOfCall == FormattedPrompt(comment[1], result[1].value.category)

\* The generated text after the removal of the prompt and of the white space
\* around what is left.
AfterPromptRemoval ==
  strip(remove(GeneratedText(generator_out, PromptOfCall), PromptOfCall))

\* The text starts with the prefix, in any case of the letters.
StartsWithPrefix(text, prefix) ==
  /\ Len(text) >= Len(prefix)
  /\ lower(SubSeq(text, 1, Len(prefix))) = lower(prefix)

\* C21, as stated: when the generated text, after the removal of the
\* prompt, starts with one of the configured prefixes in any case, the text
\* produced by _clean_spiritual_reply does not start with that prefix, also
\* when no colon follows the prefix.
C21_PrefixStripped ==
  Generated =>
    \A i \in 1..Len(prefixes_to_remove) :
      StartsWithPrefix(AfterPromptRemoval, prefixes_to_remove[i])
        => ~StartsWithPrefix(CleanedText, prefixes_to_remove[i])

\* The prefix is stripped when a colon follows it on the same line: the
\* generation ' Response: Note: thank you ...' loses 'Response: Note:'.
C21_StrippedWithColon ==
  /\ Generated
  /\ generator_out.continuation
       = " Response: Note: thank you for sharing this with us!"
  /\ StartsWithPrefix(AfterPromptRemoval, "Response:")
  /\ CleanedText = "thank you for sharing this with us."

---------------------------------------------------------------------------
(* C22 *)

\* The text that is split into sentences: the generated text without the
\* prompt and without the prefixes the patterns remove.
PrefixStripped == StripPrefixes(AfterPromptRemoval, 1)

\* The positions where a fragment of the text starts: a character other
\* than '.', '!' and '?' at the start of the text or after one of them.
FragmentStarts(text) ==
  {a \in 1..Len(text) :
     /\ ~IsTerminator(Char(text, a))
     /\ a = 1 \/ IsTerminator(Char(text, a - 1))}

\* The fragment that starts at a, up to the next '.', '!' or '?' or the end
\* of the text, without the white space around it.
FragmentAt(text, a) ==
  strip(SubSeq(text, a,
               Least({b \in a..Len(text) :
                        b = Len(text) \/ IsTerminator(Char(text, b + 1))})))

\* The starts of the fragments that hold more than white space.
NonEmptyStarts(text) == {a \in FragmentStarts(text) : FragmentAt(text, a) # ""}

\* At most the first two non-empty fragments, in their order, each followed
\* by a full stop; the empty string when there is none.
FirstTwoSentences(text) ==
  LET starts == NonEmptyStarts(text)
      first == Least(starts)
      second == Least(starts \ {first})
  IN  IF starts = {} THEN ""
      ELSE IF Cardinality(starts) = 1 THEN FragmentAt(text, first) \o "."
      ELSE FragmentAt(text, first) \o ". " \o FragmentAt(text, second) \o "."

\* C22: for every generated text, _clean_spiritual_reply returns the text
\* built from at most the first two non-empty fragments between the runs of
\* '.', '!' and '?' of the text left after prompt and prefix removal, in
\* their order, each followed by terminal punctuation; when no non-empty
\* fragment is left it returns the empty string, and generate_reply then
\* returns the template response.
C22_SentenceTruncation ==
  Generated =>
    /\ CleanedText = FirstTwoSentences(PrefixStripped)
    /\ NonEmptyStarts(PrefixStripped) = {}
         => /\ CleanedText = ""
            /\ result[1].value.reply
                 = get_template_response(result[1].value.category, comment[1])

\* A generation of three sentences, one after a run of terminators and
\* blanks, cut to the first two.
C22_Witness ==
  /\ Generated
  /\ generator_out.continuation = " Peace be with you!! . ? God loves you. Amen"
  /\ Cardinality(NonEmptyStarts(PrefixStripped)) = 3
  /\ CleanedText = "Peace be with you. God loves you."
  /\ result[1].value.reply = CleanedText

\* A generation of terminators only: the cleaned text is empty and the reply
\* is the template response.
C22_WitnessEmpty ==
  /\ Generated
  /\ generator_out.continuation = "..."
  /\ CleanedText = ""
  /\ result[1].value.reply
       = get_template_response(result[1].value.category, comment[1])

---------------------------------------------------------------------------
(* C23 *)

\* The text is empty or holds white space only.
Blank(text) == strip(text) = ""

\* C23, as stated: both callers of process_comment, the submit handler of
\* the dashboard and the interactive loop, reject empty and white-space-only
\* comments: process_comment is never called with such a text and no message
\* of the conversation is recorded for it.
C23_CallersRejectBlank ==
  /\ comment # NoComment => ~Blank(comment[1])
  /\ \A i \in 1..Len(messages) :
       messages[i].role = "user" => ~Blank(messages[i].content)

\* The part that holds for both callers: process_comment is never called
\* with the empty string, and no message is recorded for it.
C23_CallersRejectEmpty ==
  /\ comment # NoComment => comment[1] # ""
  /\ \A i \in 1..Len(messages) : messages[i].content # ""

\* The dashboard has processed a comment with white space around it, as
\* typed.
C23_WitnessDashboard ==
  /\ comment = <<" How ? ">>
  /\ Len(messages) = 2
  /\ messages[1] = [role |-> "user", content |-> " How ? "]
  /\ messages[2].role = "ai"

---------------------------------------------------------------------------
(* C24 *)

\* The step of process_comment a request belongs to: 1 the contact upsert
\* (the search, then the creation or the update), 2 the tagging, 3 the
\* custom fields, 4 the workflow of the category, 5 the hot-lead workflow.
StepOf(request) ==
  CASE request.kind \in {"search", "create", "update"} -> 1
    [] request.kind = "tag" -> 2
    [] request.kind = "fields" -> 3
    [] request.kind = "workflow" /\ request.text # "urgent_lead_notification" -> 4
    [] OTHER -> 5

\* The requests of the call are in the order of the steps, and the search
\* comes before the creation or the update.
InStepOrder ==
  /\ \A i \in 1..Len(requests) : \A j \in (i + 1)..Len(requests) :
       StepOf(requests[i]) <= StepOf(requests[j])
  /\ requests # <<>> /\ requests[1].kind = "search"
  /\ \A i \in 2..Len(requests) : requests[i].kind # "search"

\* The contact step returned an error: nothing but its own requests, and a
\* result with every flag False and no tag.
ShortCircuited ==
  /\ \A i \in 1..Len(requests) : StepOf(requests[i]) = 1
  /\ ~ghl_result[1].results.contact_created
  /\ ~ghl_result[1].results.contact_updated
  /\ ~ghl_result[1].results.workflow_triggered
  /\ ~ghl_result[1].results.custom_fields_updated
  /\ ghl_result[1].results.tags_added = <<>>

\* The steps after the tagging were attempted: one request for the custom
\* fields, one trigger of the workflow of the category when it has one, and
\* one hot-lead trigger when the comment matches the hot_lead family.
LaterStepsAttempted ==
  /\ Len(RequestsOf("fields")) = 1
  /\ TriggerCount(CategoryWorkflows)
       = (IF ghl_call[1].category \in DOMAIN InitWorkflowRules THEN 1 ELSE 0)
  /\ TriggerCount({"urgent_lead_notification"})
       = (IF HotLeadMatched THEN 1 ELSE 0)

\* The tagging step of the call failed: a tag request was answered with a
\* failure status or raised.
TaggingFailed ==
  /\ ~ghl_result[1].results.has_error
  /\ ghl_call[1].crm.tags # "ok"
  /\ RequestsOf("tag") # <<>>
  /\ ghl_result[1].results.tags_added = <<>>

\* C24: GHLIntegration.process_comment performs the contact upsert, the
\* tagging, the update of the custom fields, the trigger of the workflow of
\* the category and the hot-lead trigger in that order; when the contact
\* upsert returns an error, no tagging, custom-field or workflow request is
\* issued and the result has contact_created, contact_updated,
\* workflow_triggered and custom_fields_updated False and tags_added empty; a
\* failed tagging step does not keep the update of the custom fields and the
\* workflow triggers from being attempted.
C24_StepOrderShortCircuit ==
  GhlDone =>
    /\ ~ghl_result[1].raised
    /\ InStepOrder
    /\ ghl_result[1].results.has_error => ShortCircuited
    /\ ~ghl_result[1].results.has_error => LaterStepsAttempted
    /\ TaggingFailed => LaterStepsAttempted

\* A hot lead whose first tag request is refused: the five steps are
\* requested in order all the same.
C24_Witness ==
  /\ GhlDone
  /\ TaggingFailed
  /\ ghl_call[1].category = "LEAD"
  /\ HotLeadMatched
  /\ [i \in 1..Len(requests) |-> StepOf(requests[i])] = <<1, 1, 2, 3, 4, 5>>
  /\ ghl_result[1].results.custom_fields_updated
  /\ ghl_result[1].results.workflow_triggered

\* The creation of the contact failed after the search: two requests, and
\* nothing reported as done.
C24_WitnessShortCircuit ==
  /\ GhlDone
  /\ ghl_result[1].results.has_error
  /\ Len(requests) = 2
  /\ requests[2].kind = "create"
  /\ ShortCircuited
  /\ HotLeadMatched

\* Every step succeeded for a hot lead: all of its tags are requested
\* between the upsert and the custom fields.
C24_WitnessAllSteps ==
  /\ GhlDone
  /\ ghl_call[1].crm = AllOk
  /\ HotLeadMatched
  /\ ghl_call[1].category = "COMPLAINT"
  /\ Len(RequestsOf("tag")) >= 3
  /\ ghl_result[1].results.tags_added # <<>>
  /\ LaterStepsAttempted

=============================================================================
